---- MODULE Spec2Model ----
(***************************************************************************)
(* Model of the ACM extraction pipeline of open_notebook:                  *)
(*   - commands/acm_commands.py           the acm_extract job              *)
(*   - open_notebook/graphs/acm_extraction.py  the LangGraph workflow      *)
(*   - open_notebook/extractors/acm_schemas.py the extraction schemas      *)
(*   - open_notebook/domain/acm.py        the persisted ACMRecord          *)
(*                                                                         *)
(* Python str values are TLA+ strings; the Python value None is the        *)
(* reserved token None, which is no str value of the model.  A source's    *)
(* full_text is kept as the sequence of its page-sized pieces: the empty   *)
(* sequence is the empty text and each piece becomes one chunk.            *)
(***************************************************************************)
EXTENDS Integers, Sequences, FiniteSets, TLC

VARIABLES
    pc,       \* per run: the point the run has reached
    inp,      \* per run: the arguments of the entry point and the source
    attempt,  \* per run: the attempt number of the outer retrier (command)
    state,    \* per run: the ExtractionState of the graph
    loc,      \* per run: locals of the running handler (save loop, command)
    store,    \* the acm_record table shared by all runs
    fnout,    \* per run: what extract_acm_from_source returned
    out,      \* per run: what the caller of the entry point received
    hist,     \* per run: observation of the calls made to the collaborators
    call      \* the helper function applied on its own: arguments and result

\* the variables of the runs, and all of them
runvars == <<pc, inp, attempt, state, loc, store, fnout, out, hist>>
vars == <<pc, inp, attempt, state, loc, store, fnout, out, hist, call>>

-----------------------------------------------------------------------------
(* Bounds of the model *)

MaxChunks == 2
MaxDedupLen == 3
MaxValidateLen == 2
MaxPages == 2
MaxWindowChunks == 3

\* the most headers, markers and tables of a document handed to the parser
MaxItems == 3

(* Program constants *)

MAX_RETRIES == 3
DEFAULT_CONTEXT_WINDOW == 128000
CHARS_PER_TOKEN_ESTIMATE == 4
CHUNK_OVERLAP_CHARS == 500
MaxAttempts == 3

RunIds == {"r1", "r2"}

None == "<None>"

Truthy(x) == x # None /\ x # ""

Min(a, b) == IF a < b THEN a ELSE b

\* str(n) of a small natural number
RECURSIVE IntStr(_)
IntStr(n) ==
    IF n < 10 THEN SubSeq("0123456789", n + 1, n + 1)
    ELSE IntStr(n \div 10) \o IntStr(n % 10)

-----------------------------------------------------------------------------
(* Python str operations used by the handlers *)

\* "sub in s"
Contains(s, sub) ==
    \E i \in 1..(Len(s) - Len(sub) + 1) : SubSeq(s, i, i + Len(sub) - 1) = sub

UpperChars == <<"A", "B", "C", "D", "E", "F", "G", "H", "I", "J", "K", "L", "M",
                "N", "O", "P", "Q", "R", "S", "T", "U", "V", "W", "X", "Y", "Z">>
LowerChars == <<"a", "b", "c", "d", "e", "f", "g", "h", "i", "j", "k", "l", "m",
                "n", "o", "p", "q", "r", "s", "t", "u", "v", "w", "x", "y", "z">>

LowerChar(c) ==
    IF \E k \in 1..Len(UpperChars) : UpperChars[k] = c
    THEN LowerChars[CHOOSE k \in 1..Len(UpperChars) : UpperChars[k] = c]
    ELSE c

\* s.lower()
RECURSIVE LowerFrom(_, _)
LowerFrom(s, i) ==
    IF i > Len(s) THEN ""
    ELSE LowerChar(SubSeq(s, i, i)) \o LowerFrom(s, i + 1)

Lower(s) == LowerFrom(s, 1)

IsSpace(c) == c \in {" ", "\n", "\t", "\r"}

\* s.strip()
RECURSIVE StripBetween(_, _, _)
StripBetween(s, a, b) ==
    IF a > b THEN ""
    ELSE IF IsSpace(SubSeq(s, a, a)) THEN StripBetween(s, a + 1, b)
    ELSE IF IsSpace(SubSeq(s, b, b)) THEN StripBetween(s, a, b - 1)
    ELSE SubSeq(s, a, b)

Strip(s) == StripBetween(s, 1, Len(s))

\* the first position from p on whose character is not in class
RECURSIVE SkipClass(_, _, _)
SkipClass(s, p, class) ==
    IF p <= Len(s) /\ SubSeq(s, p, p) \in class THEN SkipClass(s, p + 1, class)
    ELSE p

\* the position of the first newline from p on, or Len(s) + 1
RECURSIVE LineEnd(_, _)
LineEnd(s, p) ==
    IF p <= Len(s) /\ SubSeq(s, p, p) # "\n" THEN LineEnd(s, p + 1) ELSE p

\* the class \s of the patterns
Whitespace == {" ", "\n", "\t", "\r"}

\* int(s[a:b]) of a run of digits, positions a..b
RECURSIVE ParseInt(_, _, _)
ParseInt(s, a, b) ==
    IF a > b THEN 0
    ELSE 10 * ParseInt(s, a, b - 1)
         + (CHOOSE d \in 0..9 : IntStr(d) = SubSeq(s, b, b))

\* a slice index as Python adjusts it: a negative one counts from the end
SliceIndex(i, n) ==
    IF i < 0 THEN (IF i + n < 0 THEN 0 ELSE i + n) ELSE Min(i, n)

\* s[lo:hi], indices counted from 0
Slice(s, lo, hi) ==
    LET a == SliceIndex(lo, Len(s))
        b == SliceIndex(hi, Len(s))
    IN IF a >= b THEN "" ELSE SubSeq(s, a + 1, b)

\* s.rfind("\n", lo, hi), indices counted from 0
RFindNewline(s, lo, hi) ==
    LET a == SliceIndex(lo, Len(s))
        b == SliceIndex(hi, Len(s))
        found == {i \in a..(b - 1) : SubSeq(s, i + 1, i + 1) = "\n"}
    IN IF found = {} THEN -1
       ELSE CHOOSE i \in found : \A j \in found : j <= i

\* the elements of a sequence, and its filter
Range(q) == {q[i] : i \in 1..Len(q)}

RECURSIVE SetToSeqs(_)
\* every ordering of a finite set (a Python set iterates in an order the
\* program does not control)
SetToSeqs(S) ==
    IF S = {} THEN {<<>>}
    ELSE UNION {{<<x>> \o t : t \in SetToSeqs(S \ {x})} : x \in S}

-----------------------------------------------------------------------------
(* Schemas: acm_schemas.py *)

\* BuildingRoomContext()
BuildingRoomContext ==
    [school_name |-> "Unknown School", school_code |-> None,
     building_id |-> None, building_name |-> None,
     building_year |-> None, building_construction |-> None,
     room_id |-> None, room_name |-> None, room_area |-> None,
     area_type |-> "Interior", current_page |-> 1]

\* An ACMExtractionRecord; the optional fields that no handler reads or
\* writes (extent, location, friable, ...) are carried through unchanged by
\* the code and are left out.
Rec(b, bn, r, rn, p, d, res, conf, issues) ==
    [building_id |-> b, building_name |-> bn, room_id |-> r, room_name |-> rn,
     area_type |-> "Interior", product |-> p, material_description |-> d,
     result |-> res, extraction_confidence |-> conf, data_issues |-> issues]

ConfidenceLevels == {"high", "medium", "low"}

CountConf(records, level) ==
    Cardinality({i \in 1..Len(records) :
                    Lower(records[i].extraction_confidence) = level})

\* ACMExtractionResult(records=..., status=..., total_records=..., records_rejected=...)
ACMExtractionResult(records, status, total, rejected) ==
    [records |-> records, status |-> status, total_records |-> total,
     records_rejected |-> rejected,
     confidence_distribution |-> [l \in ConfidenceLevels |-> 0]]

\* update_stats without the assignment to total_records
UpdateStatsTotalKept(res) ==
    [res EXCEPT !.confidence_distribution =
                    [l \in ConfidenceLevels |-> CountConf(res.records, l)]]

\* ACMExtractionResult.update_stats
UpdateStats(res) ==
    [res EXCEPT !.total_records = Len(res.records),
                !.confidence_distribution =
                    [l \in ConfidenceLevels |-> CountConf(res.records, l)]]

-----------------------------------------------------------------------------
(* The persisted record: domain/acm.py *)

\* ACMRecord.validate_source_id
SourceRecordId(v) ==
    IF SubSeq(v, 1, Min(7, Len(v))) = "source:" THEN v ELSE "source:" \o v

Blank(v) == ~Truthy(v) \/ Strip(v) = ""

\* The field validators of ACMRecord, in field order; the result is the
\* message of the first validator that raises, or None.
ACMRecordError(source_id, school_name, record) ==
    IF ~Truthy(source_id) THEN "source_id is required"
    ELSE IF Blank(school_name) THEN "school_name cannot be empty"
    ELSE IF Blank(record.building_id) THEN "building_id cannot be empty"
    ELSE IF Blank(record.product) THEN "product cannot be empty"
    ELSE IF Blank(record.material_description)
         THEN "material_description cannot be empty"
    ELSE IF Blank(record.result) THEN "result cannot be empty"
    ELSE IF record.extraction_confidence # None
            /\ Strip(Lower(record.extraction_confidence)) \notin ConfidenceLevels
         THEN "extraction_confidence must be one of high, medium, low"
    ELSE None

\* ACMRecord(source_id=..., school_name=..., ...) as save_records builds it
ACMRecord(source_id, context, record) ==
    LET school == IF Truthy(context.school_name) THEN context.school_name
                  ELSE "Unknown School"
    IN [source_id |-> SourceRecordId(source_id),
        school_name |-> Strip(school),
        school_code |-> context.school_code,
        building_id |-> Strip(record.building_id),
        building_name |-> record.building_name,
        room_id |-> record.room_id,
        room_name |-> record.room_name,
        area_type |-> IF Truthy(record.area_type) THEN record.area_type
                      ELSE "Interior",
        product |-> Strip(record.product),
        material_description |-> Strip(record.material_description),
        result |-> Strip(record.result),
        extraction_confidence |-> Strip(Lower(record.extraction_confidence)),
        data_issues |-> IF record.data_issues # <<>> THEN record.data_issues
                        ELSE None]

\* delete_by_source without its WHERE clause
DeleteBySourceEverything(rows, source_id) == <<>>

\* delete_by_source removing only the first row of the source
DeleteBySourceFirstOnly(rows, source_id) ==
    IF \E i \in 1..Len(rows) : rows[i].source_id = source_id
    THEN LET i == CHOOSE j \in 1..Len(rows) :
                     /\ rows[j].source_id = source_id
                     /\ \A k \in 1..(j - 1) : rows[k].source_id # source_id
         IN SubSeq(rows, 1, i - 1) \o SubSeq(rows, i + 1, Len(rows))
    ELSE rows

\* ACMRecord.delete_by_source: the rows left in the table
DeleteBySource(rows, source_id) ==
    SelectSeq(rows, LAMBDA row : row.source_id # source_id)

\* ... and the count it returns
DeletedCount(rows, source_id) ==
    Len(SelectSeq(rows, LAMBDA row : row.source_id = source_id))

-----------------------------------------------------------------------------
(* Pure helpers of the workflow: graphs/acm_extraction.py *)

DescPrefixLen == 50

\* hashlib.sha256(s.encode()).hexdigest()[:8]: the digests of the
\* descriptions the model uses are the real ones; any other text keeps a
\* digest of its own.
Sha256Hex8(s) ==
    CASE s = "Vinyl tiles" -> "3a1e4931"
      [] s = "ACM insulation" -> "e6103a4f"
      [] s = "Cement sheet" -> "7e9a764b"
      [] s = "" -> "e3b0c442"
      [] s = "Vinyl tiles batch 23920" -> "1b8d900e"
      [] s = "Vinyl tiles batch 77775" -> "1b8d900e"
      [] s = " " -> "36a9e7f1"
      [] OTHER -> "sha256:" \o s

\* _generate_dedup_key
GenerateDedupKey(record, school_code) ==
    LET school == IF Truthy(school_code) THEN school_code ELSE "unknown"
        building == IF Truthy(record.building_id) THEN record.building_id
                    ELSE "unknown"
        room == IF Truthy(record.room_id) THEN record.room_id ELSE "none"
        desc == IF Truthy(record.material_description)
                THEN record.material_description ELSE ""
        desc_hash == Sha256Hex8(SubSeq(desc, 1, Min(DescPrefixLen, Len(desc))))
    IN school \o "_" \o building \o "_" \o room \o "_" \o desc_hash

\* confidence_rank with the ranks of high and low exchanged
ConfidenceRankReversed(c) ==
    CASE c = "high" -> 1
      [] c = "medium" -> 2
      [] c = "low" -> 3
      [] OTHER -> 0

\* confidence_rank.get(c, 0)
ConfidenceRank(c) ==
    CASE c = "high" -> 3
      [] c = "medium" -> 2
      [] c = "low" -> 1
      [] OTHER -> 0

\* _merge_records taking the new record as base on equal ranks
MergeRecordsTieTakesNew(existing, new) ==
    LET base == IF ConfidenceRank(new.extraction_confidence)
                    >= ConfidenceRank(existing.extraction_confidence)
                THEN new ELSE existing
        all_issues == Range(existing.data_issues) \cup Range(new.data_issues)
    IN {[base EXCEPT !.data_issues = q] : q \in SetToSeqs(all_issues)}

\* _merge_records: list(set(...)) fixes no order of the merged issues, so
\* the result is one of these records.
MergeRecords(existing, new) ==
    LET base == IF ConfidenceRank(new.extraction_confidence)
                    > ConfidenceRank(existing.extraction_confidence)
                THEN new ELSE existing
        all_issues == Range(existing.data_issues) \cup Range(new.data_issues)
    IN {[base EXCEPT !.data_issues = q] : q \in SetToSeqs(all_issues)}

\* the result normalisation with the test for "detected" ahead of the
\* tests for its negations
NormalizeResultDetectedFirst(result) ==
    LET result_lower == Lower(result)
    IN IF Contains(result_lower, "detected")
          \/ Contains(result_lower, "positive")
       THEN "Detected"
       ELSE IF Contains(result_lower, "no asbestos")
               \/ Contains(result_lower, "nad")
               \/ Contains(result_lower, "not detected")
       THEN "Not Detected"
       ELSE IF Contains(result_lower, "presumed") THEN "Presumed"
       ELSE result

\* the result normalisation of validate_records
NormalizeResult(result) ==
    LET result_lower == Lower(result)
    IN IF Contains(result_lower, "no asbestos") \/ Contains(result_lower, "nad")
          \/ Contains(result_lower, "not detected")
       THEN "Not Detected"
       ELSE IF Contains(result_lower, "detected")
               \/ Contains(result_lower, "positive")
       THEN "Detected"
       ELSE IF Contains(result_lower, "presumed") THEN "Presumed"
       ELSE result

\* the loop of validate_records without lines 465-467: nothing is taken from
\* the context
ValidateRecordNothingInferred(record, context) ==
    LET i1 == record.data_issues
        i2 == IF ~Truthy(record.building_id)
              THEN Append(i1, "Missing required field: building_id") ELSE i1
        i3 == IF ~Truthy(record.product)
              THEN Append(i2, "Missing required field: product") ELSE i2
        i4 == IF ~Truthy(record.material_description)
              THEN Append(i3, "Missing required field: material_description")
              ELSE i3
        i6 == IF Truthy(record.result) THEN i4
              ELSE Append(i4, "Result field was empty, set to Unknown")
        badconf == record.extraction_confidence \notin ConfidenceLevels
        i7 == IF badconf
              THEN Append(i6, "Invalid confidence value normalized to medium")
              ELSE i6
    IN [record EXCEPT
          !.result = IF Truthy(@) THEN NormalizeResult(@) ELSE "Unknown",
          !.extraction_confidence = IF badconf THEN "medium" ELSE @,
          !.data_issues = i7]

\* the loop of validate_records without lines 489-492: the confidence is
\* left as the model gave it
ValidateRecordConfidenceKept(record, context) ==
    LET i1 == record.data_issues
        i2 == IF ~Truthy(record.building_id)
              THEN Append(i1, "Missing required field: building_id") ELSE i1
        i3 == IF ~Truthy(record.product)
              THEN Append(i2, "Missing required field: product") ELSE i2
        i4 == IF ~Truthy(record.material_description)
              THEN Append(i3, "Missing required field: material_description")
              ELSE i3
        infer == ~Truthy(record.building_id) /\ Truthy(context.building_id)
        i5 == IF infer THEN Append(i4, "Building ID inferred from context")
              ELSE i4
        i6 == IF Truthy(record.result) THEN i5
              ELSE Append(i5, "Result field was empty, set to Unknown")
    IN [record EXCEPT
          !.building_id = IF infer THEN context.building_id ELSE @,
          !.result = IF Truthy(@) THEN NormalizeResult(@) ELSE "Unknown",
          !.data_issues = i6]

\* the body of the loop of validate_records: the record as it is left
ValidateRecord(record, context) ==
    LET i1 == record.data_issues
        i2 == IF ~Truthy(record.building_id)
              THEN Append(i1, "Missing required field: building_id") ELSE i1
        i3 == IF ~Truthy(record.product)
              THEN Append(i2, "Missing required field: product") ELSE i2
        i4 == IF ~Truthy(record.material_description)
              THEN Append(i3, "Missing required field: material_description")
              ELSE i3
        infer == ~Truthy(record.building_id) /\ Truthy(context.building_id)
        i5 == IF infer THEN Append(i4, "Building ID inferred from context")
              ELSE i4
        i6 == IF Truthy(record.result) THEN i5
              ELSE Append(i5, "Result field was empty, set to Unknown")
        badconf == record.extraction_confidence \notin ConfidenceLevels
        i7 == IF badconf
              THEN Append(i6, "Invalid confidence value normalized to medium")
              ELSE i6
    IN [record EXCEPT
          !.building_id = IF infer THEN context.building_id ELSE @,
          !.result = IF Truthy(@) THEN NormalizeResult(@) ELSE "Unknown",
          !.extraction_confidence = IF badconf THEN "medium" ELSE @,
          !.data_issues = i7]

\* validate_records ignoring the product when it rejects
RejectedIgnoresProduct(record) ==
    ~Truthy(record.building_id) \/ ~Truthy(record.material_description)

\* the test that rejects a record at the end of the loop of validate_records
Rejected(record) ==
    ~Truthy(record.building_id) \/ ~Truthy(record.product)
        \/ ~Truthy(record.material_description)

\* validate_records: the update it returns
ValidateRecords(records, context) ==
    LET checked == [i \in 1..Len(records) |-> ValidateRecord(records[i], context)]
    IN [records |-> SelectSeq(checked, LAMBDA rec : ~Rejected(rec)),
        records_rejected |-> Len(SelectSeq(checked, Rejected))]

\* the loop of deduplicate_records over the dict seen (insertion ordered),
\* kept as the sequence of its (key, record) items
RECURSIVE DedupSeen(_, _, _)
DedupSeen(records, school_code, seens) ==
    IF records = <<>> THEN seens
    ELSE LET record == Head(records)
             key == GenerateDedupKey(record, school_code)
             Step(seen) ==
                 IF \E i \in 1..Len(seen) : seen[i].key = key
                 THEN LET i == CHOOSE j \in 1..Len(seen) : seen[j].key = key
                      IN {[seen EXCEPT ![i].record = m] :
                            m \in MergeRecords(seen[i].record, record)}
                 ELSE {Append(seen, [key |-> key, record |-> record])}
         IN DedupSeen(Tail(records), school_code,
                      UNION {Step(seen) : seen \in seens})

\* deduplicate_records: the lists it can return
DeduplicateRecords(records, school_code) ==
    {[i \in 1..Len(seen) |-> seen[i].record] :
        seen \in DedupSeen(records, school_code, {<<>>})}

\* _chunk_content on a text of page-sized pieces: one chunk per piece, in
\* document order, numbered from 0
ChunkContent(content) ==
    [i \in 1..Len(content) |->
        [content |-> content[i], page_number |-> i, chunk_index |-> i - 1]]

\* open_notebook.utils.token_count: the estimated number of tokens of a
\* text, four characters to a token
TokenCount(text) ==
    (Len(text) + CHARS_PER_TOKEN_ESTIMATE - 1) \div CHARS_PER_TOKEN_ESTIMATE

\* int(context_window * CHUNK_THRESHOLD_RATIO), the ratio being one half
ChunkThresholdQuarter(context_window) == context_window \div 4

ChunkThreshold(context_window) == context_window \div 2

NoMatch == [ok |-> FALSE, stop |-> 0, number |-> 0]

\* page_pattern from the position d of its first dash on:
\* [-]+\s*Page\s+(\d+)\s*[-]+ with re.IGNORECASE.  The character classes
\* that follow one another are disjoint, so the greedy match is the only
\* one.  (The long dash the pattern also accepts is not written in any text
\* of the model.)
PageMatchFrom(s, d) ==
    LET a == SkipClass(s, d, {"-"})
        b == SkipClass(s, a, Whitespace)
        c == b + 4
        e == SkipClass(s, c, Whitespace)
        f == SkipClass(s, e, {IntStr(n) : n \in 0..9})
        g == SkipClass(s, f, Whitespace)
        h == SkipClass(s, g, {"-"})
    IN IF /\ a > d
          /\ c - 1 <= Len(s)
          /\ Lower(SubSeq(s, b, c - 1)) = "page"
          /\ e > c
          /\ f > e
          /\ h > g
       THEN [ok |-> TRUE, stop |-> h, number |-> ParseInt(s, e, f - 1)]
       ELSE NoMatch

\* re.finditer stopping after the first page marker
RECURSIVE FindPagesFirstOnly(_, _)
FindPagesFirstOnly(s, p) ==
    IF p > Len(s) THEN <<>>
    ELSE LET at_start == IF p = 1 THEN PageMatchFrom(s, 1) ELSE NoMatch
             m == IF at_start.ok THEN at_start
                  ELSE IF SubSeq(s, p, p) = "\n" THEN PageMatchFrom(s, p + 1)
                  ELSE NoMatch
         IN IF m.ok THEN <<[start |-> p, number |-> m.number]>>
            ELSE FindPagesFirstOnly(s, p + 1)

\* list(re.finditer(page_pattern, content, re.IGNORECASE)) from position p
\* on: (?:^|\n) lets a match begin at the start of the text or at a newline
RECURSIVE FindPages(_, _)
FindPages(s, p) ==
    IF p > Len(s) THEN <<>>
    ELSE LET at_start == IF p = 1 THEN PageMatchFrom(s, 1) ELSE NoMatch
             m == IF at_start.ok THEN at_start
                  ELSE IF SubSeq(s, p, p) = "\n" THEN PageMatchFrom(s, p + 1)
                  ELSE NoMatch
         IN IF m.ok THEN <<[start |-> p, number |-> m.number]>>
                         \o FindPages(s, m.stop)
            ELSE FindPages(s, p + 1)

\* ^#{1,3}\s+.+$ with re.MULTILINE at position p: one to three hashes at
\* the start of a line, whitespace, and the rest of a line that has at least
\* one character; stop is the position after the match
HeadingMatchAt(s, p) ==
    LET a == SkipClass(s, p, {"#"})
        b == SkipClass(s, a, Whitespace)
        rest == {j \in (a + 1)..Min(b, Len(s)) : SubSeq(s, j, j) # "\n"}
    IN IF /\ p = 1 \/ SubSeq(s, p - 1, p - 1) = "\n"
          /\ a - p \in 1..3
          /\ rest # {}
       THEN [ok |-> TRUE,
             stop |-> LineEnd(s, CHOOSE j \in rest : \A k \in rest : k <= j),
             number |-> 0]
       ELSE NoMatch

\* re.split(r'(^#{1,3}\s+.+$)', content, flags=re.MULTILINE) from position
\* p on, the text since the last heading beginning at position from
RECURSIVE SplitHeadings(_, _, _)
SplitHeadings(s, from, p) ==
    IF p > Len(s) THEN <<SubSeq(s, from, Len(s))>>
    ELSE LET m == HeadingMatchAt(s, p)
         IN IF m.ok
            THEN <<SubSeq(s, from, p - 1), SubSeq(s, p, m.stop - 1)>>
                 \o SplitHeadings(s, m.stop, m.stop)
            ELSE SplitHeadings(s, from, p + 1)

\* the loop of _split_by_sections
RECURSIVE AccumulateSections(_, _, _, _)
AccumulateSections(sections, current_chunk, chunks, max_tokens) ==
    IF sections = <<>>
    THEN IF current_chunk # "" THEN Append(chunks, current_chunk) ELSE chunks
    ELSE LET section == Head(sections)
         IN IF Strip(section) = ""
            THEN AccumulateSections(Tail(sections), current_chunk, chunks,
                                    max_tokens)
            ELSE IF TokenCount(current_chunk \o section) > max_tokens
            THEN AccumulateSections(Tail(sections), section,
                                    IF current_chunk # ""
                                    THEN Append(chunks, current_chunk)
                                    ELSE chunks,
                                    max_tokens)
            ELSE AccumulateSections(Tail(sections), current_chunk \o section,
                                    chunks, max_tokens)

\* _split_by_sections
SplitBySections(content, max_tokens, base_page) ==
    LET chunks == AccumulateSections(SplitHeadings(content, 1, 1), "", <<>>,
                                     max_tokens)
    IN IF chunks # <<>> THEN chunks ELSE <<content>>

\* _chunk_content, the loop over page_matches from the i-th match on
RECURSIVE PageChunks(_, _, _, _, _)
PageChunks(content, page_matches, i, threshold, chunks) ==
    IF i > Len(page_matches) THEN chunks
    ELSE LET start == page_matches[i].start
             end == IF i + 1 <= Len(page_matches)
                    THEN page_matches[i + 1].start - 1 ELSE Len(content)
             page_content == SubSeq(content, start, end)
             page_num == page_matches[i].number
             parts == IF TokenCount(page_content) > threshold
                      THEN SplitBySections(page_content, threshold, page_num)
                      ELSE <<page_content>>
         IN PageChunks(content, page_matches, i + 1, threshold,
                chunks \o [j \in 1..Len(parts) |->
                              [content |-> parts[j], page_number |-> page_num,
                               chunk_index |-> Len(chunks) + j - 1]])

-----------------------------------------------------------------------------
(* The graph: nodes as the update each returns, edges as routing operators *)

\* LangGraph merges a node's returned dict into the state, key by key
Upd(st, u) == [k \in DOMAIN st |-> IF k \in DOMAIN u THEN u[k] ELSE st[k]]

\* initial_state of extract_acm_from_source (source, model_id and start_time
\* are inputs that no handler changes; content is only ever written)
InitialState ==
    [chunks |-> <<>>, current_chunk_index |-> 0,
     context |-> BuildingRoomContext, records |-> <<>>,
     records_rejected |-> 0,
     extraction_result |-> ACMExtractionResult(<<>>, "valid", 0, 0),
     error |-> None, retry_count |-> 0]

\* prepare_context; an absent full_text and an empty one are both <<>>
PrepareContext(source) ==
    IF source.full_text = <<>>
    THEN [error |-> "Source has no content to extract", chunks |-> <<>>,
          context |-> BuildingRoomContext]
    ELSE [chunks |-> ChunkContent(source.full_text),
          context |-> IF Truthy(source.title)
                      THEN [BuildingRoomContext EXCEPT !.school_name = source.title]
                      ELSE BuildingRoomContext,
          current_chunk_index |-> 0, records |-> <<>>]

\* the guard at the head of extract_records
NoChunkToProcess(st) ==
    st.chunks = <<>> \/ st.current_chunk_index >= Len(st.chunks)

\* extract_records: context.current_page is assigned on the shared context
\* object before any call, so it is kept whatever the call does
ContextAtChunk(st) ==
    [st.context EXCEPT
        !.current_page = st.chunks[st.current_chunk_index + 1].page_number]

\* the context updated from the first record returned instead of the last
ContextAfterFirstRecord(context, new_records) ==
    IF new_records = <<>> THEN context
    ELSE LET first_record == new_records[1]
             c1 == IF Truthy(first_record.building_id)
                   THEN [context EXCEPT !.building_id = first_record.building_id,
                                        !.building_name = first_record.building_name]
                   ELSE context
         IN IF Truthy(first_record.room_id)
            THEN [c1 EXCEPT !.room_id = first_record.room_id,
                            !.room_name = first_record.room_name]
            ELSE c1

\* extract_records: the context after a successful call, updated from the
\* last record returned
ContextAfter(context, new_records) ==
    IF new_records = <<>> THEN context
    ELSE LET last_record == new_records[Len(new_records)]
             c1 == IF Truthy(last_record.building_id)
                   THEN [context EXCEPT !.building_id = last_record.building_id,
                                        !.building_name = last_record.building_name]
                   ELSE context
         IN IF Truthy(last_record.room_id)
            THEN [c1 EXCEPT !.room_id = last_record.room_id,
                            !.room_name = last_record.room_name]
            ELSE c1

\* extract_records giving a record without a building_id the building that
\* is current when its chunk is processed
ExtractSuccessInferring(st, response) ==
    LET result == UpdateStats(response)
        current == ContextAtChunk(st).building_id
        filled == [i \in 1..Len(result.records) |->
                      IF ~Truthy(result.records[i].building_id) /\ Truthy(current)
                      THEN [result.records[i] EXCEPT !.building_id = current]
                      ELSE result.records[i]]
    IN [records |-> st.records \o filled,
        context |-> ContextAfter(ContextAtChunk(st), result.records),
        current_chunk_index |-> st.current_chunk_index + 1,
        extraction_result |-> result,
        retry_count |-> 0]

\* extract_records: the update returned when the model answers
ExtractSuccess(st, response) ==
    LET result == UpdateStats(response)
    IN [records |-> st.records \o result.records,
        context |-> ContextAfter(ContextAtChunk(st), result.records),
        current_chunk_index |-> st.current_chunk_index + 1,
        extraction_result |-> result,
        retry_count |-> 0]

\* extract_records with the retry test off by one (retry_count <= MAX_RETRIES)
ExtractFailureOffByOne(st, message) ==
    IF st.retry_count <= MAX_RETRIES
    THEN [retry_count |-> st.retry_count + 1, error |-> None,
          context |-> ContextAtChunk(st)]
    ELSE [error |-> message, context |-> ContextAtChunk(st)]

\* extract_records: the update returned from either except clause
ExtractFailure(st, message) ==
    IF st.retry_count < MAX_RETRIES
    THEN [retry_count |-> st.retry_count + 1, error |-> None,
          context |-> ContextAtChunk(st)]
    ELSE [error |-> message, context |-> ContextAtChunk(st)]

\* extract_records: the update returned when the model cannot be provisioned
ProvisionFailure(st) ==
    [error |-> "Model provisioning failed", context |-> ContextAtChunk(st)]

\* the edge out of prepare
AfterPrepare(st) == IF Truthy(st.error) THEN "END" ELSE "extract"

\* should_continue_extraction leaving the loop one chunk early
ShouldContinueOneShort(st) ==
    IF Truthy(st.error) THEN "END"
    ELSE IF st.retry_count > 0 /\ st.retry_count <= MAX_RETRIES THEN "extract"
    ELSE IF st.current_chunk_index + 1 < Len(st.chunks) THEN "extract"
    ELSE "validate"

\* should_continue_extraction retrying whenever the last call failed,
\* without looking at the error
ShouldContinueAlwaysRetry(st) ==
    IF st.retry_count > 0 /\ st.retry_count <= MAX_RETRIES THEN "extract"
    ELSE IF Truthy(st.error) THEN "END"
    ELSE IF st.current_chunk_index < Len(st.chunks) THEN "extract"
    ELSE "validate"

\* should_continue_extraction, with the edge map of the graph applied
ShouldContinueExtraction(st) ==
    IF Truthy(st.error) THEN "END"
    ELSE IF st.retry_count > 0 /\ st.retry_count <= MAX_RETRIES THEN "extract"
    ELSE IF st.current_chunk_index < Len(st.chunks) THEN "extract"
    ELSE "validate"

\* should_save with the edge map sending "save" to the save node
ShouldSaveSkipsDedup(st) == IF Truthy(st.error) THEN "END" ELSE "save"

\* should_save, with the edge map of the graph applied
ShouldSave(st) == IF Truthy(st.error) THEN "END" ELSE "deduplicate"

\* save_records: the result it builds after the loop
SaveResult(records, saved_count, records_rejected) ==
    UpdateStats(ACMExtractionResult(
        records, IF saved_count > 0 THEN "valid" ELSE "no_acm_data",
        saved_count, records_rejected))

\* save_records: the update it returns
SaveUpdate(st, saved_count, errors) ==
    IF st.records = <<>>
    THEN [extraction_result |->
              ACMExtractionResult(<<>>, "no_acm_data", 0, st.records_rejected),
          error |-> None]
    ELSE [extraction_result |->
              SaveResult(st.records, saved_count, st.records_rejected),
          error |-> IF errors # <<>>
                    THEN "Saved " \o IntStr(saved_count) \o " records, "
                         \o IntStr(Len(errors)) \o " failed: " \o errors[1]
                    ELSE None]

\* extract_acm_from_source: the ACMExtractionOutput built from the final state
FunctionOutput(st) ==
    IF Truthy(st.error)
    THEN [status |-> "failed", total_records |-> 0,
          records_failed |-> st.extraction_result.records_rejected,
          confidence_distribution |-> [l \in ConfidenceLevels |-> 0],
          error |-> st.error]
    ELSE [status |-> IF st.extraction_result.total_records > 0
                     THEN "success" ELSE "no_data",
          total_records |-> st.extraction_result.total_records,
          records_failed |-> st.extraction_result.records_rejected,
          confidence_distribution |->
              st.extraction_result.confidence_distribution,
          error |-> None]

\* extract_acm_from_source: the ACMExtractionOutput of its except clause
FunctionExceptOutput(message) ==
    [status |-> "failed", total_records |-> 0, records_failed |-> 0,
     confidence_distribution |-> [l \in ConfidenceLevels |-> 0],
     error |-> message]

\* acm_extract_command: the ACMExtractionOutput built from the result
CommandOutput(result, deleted_count) ==
    IF result.status = "failed"
    THEN [success |-> FALSE, records_created |-> 0,
          records_deleted |-> deleted_count,
          records_failed |-> result.records_failed,
          error_message |-> result.error, confidence_distribution |-> None]
    ELSE IF result.status = "no_data"
    THEN [success |-> TRUE, records_created |-> 0,
          records_deleted |-> deleted_count,
          records_failed |-> result.records_failed,
          error_message |-> None, confidence_distribution |-> None]
    ELSE [success |-> TRUE, records_created |-> result.total_records,
          records_deleted |-> deleted_count,
          records_failed |-> result.records_failed,
          error_message |-> None,
          confidence_distribution |-> result.confidence_distribution]

\* acm_extract_command: the ACMExtractionOutput of its except Exception clause
CommandExceptOutput(message) ==
    [success |-> FALSE, records_created |-> 0, records_deleted |-> 0,
     records_failed |-> 0, error_message |-> message,
     confidence_distribution |-> None]

-----------------------------------------------------------------------------
(* Inputs *)

rTiles ==
    Rec("B1", "Block A", "R1", "Office", "Floor Tiles", "Vinyl tiles",
        "Detected", "high", <<>>)
rTilesLow ==
    Rec("B1", "Block A", "R1", "Office", "Tiles", "Vinyl tiles",
        "Asbestos detected in sample", "low", <<"Blurry scan">>)
rNoBuilding ==
    Rec("", None, None, None, "Pipe Lagging", "ACM insulation",
        "", "certain", <<>>)
rNoProduct ==
    Rec("B2", "Block B", None, None, "", "Cement sheet", "NAD", "medium", <<>>)
rBlank ==
    Rec(" ", None, "R2", "Store", "Eaves", "Cement sheet",
        "Presumed", "medium", <<>>)

\* what the model can answer for a chunk: the records of its
\* ACMExtractionResult
ModelResponses ==
    {<<>>, <<rTiles>>, <<rNoBuilding, rTilesLow>>, <<rNoProduct, rNoBuilding>>,
     <<rBlank>>}

\* the source documents: a title or none, and a text of 0..MaxChunks pieces
Sources ==
    {[title |-> t, full_text |-> [i \in 1..n |-> "page " \o IntStr(i)]] :
        t \in {None, "Sample PS"}, n \in 0..MaxChunks}

\* the arguments of a run: the entry point called, the source and force
Inputs ==
    {[entry |-> e, source_id |-> id, source |-> src, force |-> f] :
        e \in {"function", "command"}, id \in {"source:1"},
        src \in Sources, f \in BOOLEAN}
    \cup
    {[entry |-> "command", source_id |-> "", source |-> src, force |-> FALSE] :
        src \in {s \in Sources : s.title = None /\ s.full_text = <<>>}}

\* rows already in the table: one of an earlier extraction of source:1 and
\* one of another source
OldRow(source_id) ==
    ACMRecord(source_id, BuildingRoomContext,
              Rec("B9", None, None, None, "Old Sheet", "Cement sheet",
                  "Detected", "medium", <<>>))

NoLocals == [deleted_count |-> 0, saved_count |-> 0, errors |-> <<>>, i |-> 1]

NoResult ==
    [status |-> None, total_records |-> 0, records_failed |-> 0,
     confidence_distribution |-> [l \in ConfidenceLevels |-> 0],
     error |-> None]

\* where a run starts: in the job's command or in the workflow's function
EntryPoint(i) == IF i.entry = "command" THEN "cmd_start" ELSE "fn_start"

NoOutput == [kind |-> "none", value |-> None]

NoHistory ==
    [invocations |-> 0, any_invoked |-> FALSE,
     extracted |-> <<>>, deletes |-> 0, saves |-> <<>>, nodes |-> <<>>]

\* no helper function is applied on its own
NoCall == [fn |-> "none"]

Init ==
    /\ \E i \in Inputs :
          /\ inp = [r \in RunIds |-> i]
          /\ pc = [r \in RunIds |-> IF r = "r1" THEN EntryPoint(i) ELSE "idle"]
    /\ attempt = [r \in RunIds |-> 1]
    /\ state = [r \in RunIds |-> InitialState]
    /\ loc = [r \in RunIds |-> NoLocals]
    /\ store = <<OldRow("source:1"), OldRow("source:2")>>
    /\ fnout = [r \in RunIds |-> NoResult]
    /\ out = [r \in RunIds |-> NoOutput]
    /\ hist = [r \in RunIds |-> NoHistory]
    /\ call = NoCall

-----------------------------------------------------------------------------
(* Actions *)

Returned(v) == [kind |-> "returned", value |-> v]
Raised(e) == [kind |-> "raised", value |-> e]

\* the place a graph edge leads to
Node(edge) == IF edge = "END" THEN "fn_return" ELSE edge

Visit(h, node) ==
    IF h.nodes # <<>> /\ h.nodes[Len(h.nodes)] = node THEN h
    ELSE [h EXCEPT !.nodes = Append(@, node)]

\* one call of chain.ainvoke: invocations counts the calls made so far for
\* the chunk at current_chunk_index, so an answer (which moves on to the
\* next chunk) starts the count again
Invoke(h, index, answered) ==
    [h EXCEPT !.invocations = IF answered THEN 0 ELSE @ + 1,
              !.any_invoked = TRUE,
              !.extracted = IF answered THEN Append(@, index) ELSE @]

\* acm_extract_command up to the forced delete: the source_id check,
\* Source.get and the checks of what it returned
CmdLoadSource(r) ==
    /\ pc[r] = "cmd_start"
    /\ \E got \in {"source", "none", "RuntimeError", "Exception"} :
          LET failure ==
                  IF ~Truthy(inp[r].source_id)
                  THEN "source_id must be a non-empty string"
                  ELSE IF got = "Exception" THEN "Database error"
                  ELSE IF got = "none" THEN "Source not found"
                  ELSE IF inp[r].source.full_text = <<>>
                  THEN "Source has no text content"
                  ELSE None
          IN IF Truthy(inp[r].source_id) /\ got = "RuntimeError"
             THEN /\ pc' = [pc EXCEPT ![r] = "cmd_raised"]
                  /\ out' = out
             ELSE IF failure # None
             THEN /\ pc' = [pc EXCEPT ![r] = "done"]
                  /\ out' = [out EXCEPT ![r] = Returned(CommandExceptOutput(failure))]
             ELSE /\ pc' = [pc EXCEPT ![r] = "cmd_delete"]
                  /\ out' = out
    /\ UNCHANGED <<inp, attempt, state, loc, store, fnout, hist, call>>

\* acm_extract_command: the forced delete
CmdDelete(r) ==
    /\ pc[r] = "cmd_delete"
    /\ IF inp[r].force
       THEN \E ok \in BOOLEAN :
              /\ hist' = [hist EXCEPT ![r].deletes = @ + 1]
              /\ IF ok
                 THEN /\ store' = DeleteBySource(store, inp[r].source_id)
                      /\ loc' = [loc EXCEPT ![r].deleted_count =
                                    DeletedCount(store, inp[r].source_id)]
                      /\ pc' = [pc EXCEPT ![r] = "fn_start"]
                      /\ out' = out
                 ELSE /\ out' = [out EXCEPT ![r] =
                            Returned(CommandExceptOutput("Database operation failed"))]
                      /\ pc' = [pc EXCEPT ![r] = "done"]
                      /\ UNCHANGED <<store, loc>>
       ELSE /\ pc' = [pc EXCEPT ![r] = "fn_start"]
            /\ UNCHANGED <<store, loc, out, hist>>
    /\ UNCHANGED <<inp, attempt, state, fnout, call>>

\* the command handing its own force flag on to extract_acm_from_source
FunctionForcePassedOn(i) == i.force

\* the force argument extract_acm_from_source is called with: the command
\* always passes False
FunctionForce(i) == i.entry = "function" /\ i.force

\* extract_acm_from_source up to graph.ainvoke: the forced delete, which is
\* outside its try, and the initial state
FnStart(r) ==
    /\ pc[r] = "fn_start"
    /\ IF FunctionForce(inp[r])
       THEN \E ok \in BOOLEAN :
              /\ hist' = [hist EXCEPT ![r].deletes = @ + 1]
              /\ IF ok
                 THEN /\ store' = DeleteBySource(store, inp[r].source_id)
                      /\ state' = [state EXCEPT ![r] = InitialState]
                      /\ pc' = [pc EXCEPT ![r] = "prepare"]
                      /\ out' = out
                 ELSE /\ out' = [out EXCEPT ![r] = Raised("DatabaseOperationError")]
                      /\ pc' = [pc EXCEPT ![r] = "done"]
                      /\ UNCHANGED <<store, state>>
       ELSE /\ state' = [state EXCEPT ![r] = InitialState]
            /\ pc' = [pc EXCEPT ![r] = "prepare"]
            /\ UNCHANGED <<store, out, hist>>
    /\ UNCHANGED <<inp, attempt, loc, fnout, call>>

\* node prepare and the edge out of it
Prepare(r) ==
    /\ pc[r] = "prepare"
    /\ LET st == Upd(state[r], PrepareContext(inp[r].source))
       IN /\ state' = [state EXCEPT ![r] = st]
          /\ pc' = [pc EXCEPT ![r] = Node(AfterPrepare(st))]
    /\ hist' = [hist EXCEPT ![r] = Visit(@, "prepare")]
    /\ UNCHANGED <<inp, attempt, loc, store, fnout, out, call>>

\* what one run of extract_records can meet: the prompt cannot be rendered
\* (raised out of the graph), the model cannot be provisioned, the call
\* fails with a ValidationError or another exception, or the model answers
ExtractOutcomes ==
    {[kind |-> k, records |-> <<>>] :
        k \in {"render_error", "provision_error", "validation_error", "exception"}}
    \cup {[kind |-> "answer", records |-> recs] : recs \in ModelResponses}

\* node extract (one attempt on the current chunk) and the edge out of it
Extract(r) ==
    /\ pc[r] = "extract"
    /\ \E o \in ExtractOutcomes :
          LET cur == state[r]
              update ==
                  IF NoChunkToProcess(cur) THEN [error |-> "No chunks to process"]
                  ELSE CASE o.kind = "render_error" -> [context |-> ContextAtChunk(cur)]
                         [] o.kind = "provision_error" -> ProvisionFailure(cur)
                         [] o.kind = "validation_error" ->
                              ExtractFailure(cur,
                                  "Extraction validation failed after "
                                  \o IntStr(MAX_RETRIES) \o " retries")
                         [] o.kind = "exception" ->
                              ExtractFailure(cur,
                                  "Extraction failed after "
                                  \o IntStr(MAX_RETRIES) \o " retries")
                         [] OTHER ->
                              ExtractSuccess(cur,
                                  ACMExtractionResult(o.records, "valid", 0, 0))
              st == Upd(cur, update)
              invoked == ~NoChunkToProcess(cur)
                         /\ o.kind \in {"validation_error", "exception", "answer"}
              h1 == Visit(hist[r], "extract")
              h3 == IF invoked
                    THEN Invoke(h1, cur.current_chunk_index, o.kind = "answer")
                    ELSE h1
          IN /\ state' = [state EXCEPT ![r] = st]
             /\ hist' = [hist EXCEPT ![r] = h3]
             /\ pc' = [pc EXCEPT ![r] =
                         IF ~NoChunkToProcess(cur) /\ o.kind = "render_error"
                         THEN "fn_except"
                         ELSE Node(ShouldContinueExtraction(st))]
    /\ UNCHANGED <<inp, attempt, loc, store, fnout, out, call>>

\* node validate and the edge out of it
Validate(r) ==
    /\ pc[r] = "validate"
    /\ LET st == Upd(state[r],
                     ValidateRecords(state[r].records, state[r].context))
       IN /\ state' = [state EXCEPT ![r] = st]
          /\ pc' = [pc EXCEPT ![r] = Node(ShouldSave(st))]
    /\ hist' = [hist EXCEPT ![r] = Visit(@, "validate")]
    /\ UNCHANGED <<inp, attempt, loc, store, fnout, out, call>>

\* node deduplicate and the edge to save
Deduplicate(r) ==
    /\ pc[r] = "deduplicate"
    /\ \E deduplicated \in DeduplicateRecords(state[r].records,
                                              state[r].context.school_code) :
          state' = [state EXCEPT ![r] = Upd(@, [records |-> deduplicated])]
    /\ pc' = [pc EXCEPT ![r] = "save"]
    /\ loc' = [loc EXCEPT ![r].saved_count = 0, ![r].errors = <<>>, ![r].i = 1]
    /\ hist' = [hist EXCEPT ![r] = Visit(@, "deduplicate")]
    /\ UNCHANGED <<inp, attempt, store, fnout, out, call>>

\* node save giving up the batch at the first save that fails
SaveRecordStopsAtFailure(r) ==
    /\ pc[r] = "save"
    /\ loc[r].i <= Len(state[r].records)
    /\ LET record == state[r].records[loc[r].i]
           school == IF Truthy(state[r].context.school_name)
                     THEN state[r].context.school_name ELSE "Unknown School"
           invalid == ACMRecordError(inp[r].source_id, school, record)
       IN \E saved \in BOOLEAN :
            /\ invalid # None => ~saved
            /\ IF saved
               THEN /\ store' = Append(store,
                          ACMRecord(inp[r].source_id, state[r].context, record))
                    /\ loc' = [loc EXCEPT ![r].saved_count = @ + 1,
                                          ![r].i = @ + 1]
               ELSE /\ store' = store
                    /\ loc' = [loc EXCEPT
                          ![r].errors = Append(@, IF invalid # None THEN invalid
                                                  ELSE "Database write failed"),
                          ![r].i = Len(state[r].records) + 1]
            /\ hist' = [hist EXCEPT ![r] =
                  [Visit(@, "save") EXCEPT
                      !.saves = Append(@, [index |-> loc[r].i, saved |-> saved])]]
    /\ UNCHANGED <<pc, inp, attempt, state, fnout, out, call>>

\* node save: one turn of its loop, the record at loc.i
SaveRecord(r) ==
    /\ pc[r] = "save"
    /\ loc[r].i <= Len(state[r].records)
    /\ LET record == state[r].records[loc[r].i]
           school == IF Truthy(state[r].context.school_name)
                     THEN state[r].context.school_name ELSE "Unknown School"
           invalid == ACMRecordError(inp[r].source_id, school, record)
       IN \E saved \in BOOLEAN :
            /\ invalid # None => ~saved
            /\ IF saved
               THEN /\ store' = Append(store,
                          ACMRecord(inp[r].source_id, state[r].context, record))
                    /\ loc' = [loc EXCEPT ![r].saved_count = @ + 1,
                                          ![r].i = @ + 1]
               ELSE /\ store' = store
                    /\ loc' = [loc EXCEPT
                          ![r].errors = Append(@, IF invalid # None THEN invalid
                                                  ELSE "Database write failed"),
                          ![r].i = @ + 1]
            /\ hist' = [hist EXCEPT ![r] =
                  [Visit(@, "save") EXCEPT
                      !.saves = Append(@, [index |-> loc[r].i, saved |-> saved])]]
    /\ UNCHANGED <<pc, inp, attempt, state, fnout, out, call>>

\* node save: after the loop (or with no record at all), and the edge to END
SaveFinish(r) ==
    /\ pc[r] = "save"
    /\ loc[r].i > Len(state[r].records)
    /\ state' = [state EXCEPT ![r] =
                    Upd(@, SaveUpdate(@, loc[r].saved_count, loc[r].errors))]
    /\ pc' = [pc EXCEPT ![r] = "fn_return"]
    /\ hist' = [hist EXCEPT ![r] = Visit(@, "save")]
    /\ UNCHANGED <<inp, attempt, loc, store, fnout, out, call>>

\* where extract_acm_from_source returns to
Caller(i) == IF i.entry = "command" THEN "cmd_return" ELSE "done"

\* extract_acm_from_source after graph.ainvoke returned
FnReturn(r) ==
    /\ pc[r] = "fn_return"
    /\ fnout' = [fnout EXCEPT ![r] = FunctionOutput(state[r])]
    /\ out' = [out EXCEPT ![r] = IF inp[r].entry = "function"
                                 THEN Returned(FunctionOutput(state[r])) ELSE @]
    /\ pc' = [pc EXCEPT ![r] = Caller(inp[r])]
    /\ UNCHANGED <<inp, attempt, state, loc, store, hist, call>>

\* extract_acm_from_source after graph.ainvoke raised
FnExcept(r) ==
    /\ pc[r] = "fn_except"
    /\ LET result == FunctionExceptOutput("Prompt rendering failed")
       IN /\ fnout' = [fnout EXCEPT ![r] = result]
          /\ out' = [out EXCEPT ![r] = IF inp[r].entry = "function"
                                       THEN Returned(result) ELSE @]
    /\ pc' = [pc EXCEPT ![r] = Caller(inp[r])]
    /\ UNCHANGED <<inp, attempt, state, loc, store, hist, call>>

\* acm_extract_command after extract_acm_from_source returned
CmdReturn(r) ==
    /\ pc[r] = "cmd_return"
    /\ out' = [out EXCEPT ![r] =
                  Returned(CommandOutput(fnout[r], loc[r].deleted_count))]
    /\ pc' = [pc EXCEPT ![r] = "done"]
    /\ UNCHANGED <<inp, attempt, state, loc, store, fnout, hist, call>>

\* the retry wrapper allowing one attempt more than max_attempts
RetrierOneMore(r) ==
    /\ pc[r] = "cmd_raised"
    /\ IF attempt[r] <= MaxAttempts
       THEN /\ attempt' = [attempt EXCEPT ![r] = @ + 1]
            /\ pc' = [pc EXCEPT ![r] = "cmd_start"]
            /\ state' = [state EXCEPT ![r] = InitialState]
            /\ loc' = [loc EXCEPT ![r] = NoLocals]
            /\ hist' = [hist EXCEPT ![r] = NoHistory]
            /\ out' = out
       ELSE /\ out' = [out EXCEPT ![r] = Raised("RuntimeError")]
            /\ pc' = [pc EXCEPT ![r] = "done"]
            /\ UNCHANGED <<attempt, state, loc, hist>>
    /\ UNCHANGED <<inp, store, fnout, call>>

\* the retry wrapper of the command: a RuntimeError starts a new attempt
\* while attempts are left, and is the job's outcome after the last one
Retrier(r) ==
    /\ pc[r] = "cmd_raised"
    /\ IF attempt[r] < MaxAttempts
       THEN /\ attempt' = [attempt EXCEPT ![r] = @ + 1]
            /\ pc' = [pc EXCEPT ![r] = "cmd_start"]
            /\ state' = [state EXCEPT ![r] = InitialState]
            /\ loc' = [loc EXCEPT ![r] = NoLocals]
            /\ hist' = [hist EXCEPT ![r] = NoHistory]
            /\ out' = out
       ELSE /\ out' = [out EXCEPT ![r] = Raised("RuntimeError")]
            /\ pc' = [pc EXCEPT ![r] = "done"]
            /\ UNCHANGED <<attempt, state, loc, hist>>
    /\ UNCHANGED <<inp, store, fnout, call>>

\* the extraction of the source is requested again once the last run is over
Rerun(r) ==
    /\ pc[r] = "done"
    /\ pc' = [pc EXCEPT ![r] = EntryPoint(inp[r])]
    /\ attempt' = [attempt EXCEPT ![r] = 1]
    /\ state' = [state EXCEPT ![r] = InitialState]
    /\ loc' = [loc EXCEPT ![r] = NoLocals]
    /\ fnout' = [fnout EXCEPT ![r] = NoResult]
    /\ out' = [out EXCEPT ![r] = NoOutput]
    /\ hist' = [hist EXCEPT ![r] = NoHistory]
    /\ UNCHANGED <<inp, store, call>>

\* a step of run r
RunStep(r) ==
        \/ CmdLoadSource(r)
        \/ CmdDelete(r)
        \/ FnStart(r)
        \/ Prepare(r)
        \/ Extract(r)
        \/ Validate(r)
        \/ Deduplicate(r)
        \/ SaveRecord(r)
        \/ SaveFinish(r)
        \/ FnReturn(r)
        \/ FnExcept(r)
        \/ CmdReturn(r)
        \/ Retrier(r)

Next == \E r \in RunIds : RunStep(r)

Spec == Init /\ [][Next]_vars

\* forced runs of one source, one after the other
RerunInit == Init /\ inp["r1"].force

RerunNext == \E r \in RunIds : RunStep(r) \/ Rerun(r)

RerunSpec == RerunInit /\ [][RerunNext]_vars

\* two runs at once, each on a one-page source of its own: the first
\* through either entry point, the second through the workflow's function
OnePage == [title |-> None, full_text |-> <<"page 1">>]

ConcInputs(source_id, entries) ==
    {[entry |-> e, source_id |-> source_id, source |-> OnePage, force |-> f] :
        e \in entries, f \in BOOLEAN}

ConcInit ==
    /\ \E i1 \in ConcInputs("source:1", {"function", "command"}),
          i2 \in ConcInputs("source:2", {"function"}) :
          /\ inp = [r \in RunIds |-> IF r = "r1" THEN i1 ELSE i2]
          /\ pc = [r \in RunIds |-> EntryPoint(inp[r])]
    /\ attempt = [r \in RunIds |-> 1]
    /\ state = [r \in RunIds |-> InitialState]
    /\ loc = [r \in RunIds |-> NoLocals]
    /\ store = <<OldRow("source:1"), OldRow("source:2")>>
    /\ fnout = [r \in RunIds |-> NoResult]
    /\ out = [r \in RunIds |-> NoOutput]
    /\ hist = [r \in RunIds |-> NoHistory]
    /\ call = NoCall

ConcSpec == ConcInit /\ [][Next]_vars

-----------------------------------------------------------------------------
(* The pattern parser: extractors/acm_extractor.py.  The lines it reads are *)
(* stripped and hold no newline, so each pattern is matched on one line;    *)
(* the long dash and the character of the square metre that the patterns    *)
(* accept are written in no text of the model.                              *)

\* s.split(c): the pieces of s between the occurrences of the character c
Split(s, c) ==
    LET seps == {k \in 1..Len(s) : SubSeq(s, k, k) = c}
        Sep(j) == IF j = 0 THEN 0
                  ELSE IF j > Cardinality(seps) THEN Len(s) + 1
                  ELSE CHOOSE k \in seps :
                          Cardinality({m \in seps : m < k}) = j - 1
    IN [j \in 1..Cardinality(seps) + 1 |->
           SubSeq(s, Sep(j - 1) + 1, Sep(j) - 1)]

IsDigit(c) == c \in {IntStr(n) : n \in 0..9}
IsLetter(c) == LowerChar(c) \in Range(LowerChars)

\* ParseContext()
ParseContext ==
    [school_name |-> "", school_code |-> None, building_id |-> "",
     building_name |-> None, building_year |-> None,
     building_construction |-> None, room_id |-> None, room_name |-> None,
     room_area |-> None, area_type |-> "Interior", current_page |-> 1]

\* ^#+\s*(?:word[:\s]*)? of the header patterns: the position after it,
\* with the optional word taken (when it stands there) or left
AfterHashes(line, word, taken) ==
    LET a == SkipClass(line, 1, {"#"})
        b == SkipClass(line, a, Whitespace)
        c == b + Len(word)
    IN IF a = 1 THEN 0
       ELSE IF ~taken THEN b
       ELSE IF c - 1 <= Len(line) /\ Lower(SubSeq(line, b, c - 1)) = word
       THEN SkipClass(line, c, Whitespace \cup {":"})
       ELSE 0

\* BUILDING_PATTERN from the position p of the building id on:
\* ([A-Z]\d+[A-Z]?)\s*[-]\s*([^-\n]+?)(?:\s*[-]\s*(\d{4}))?
\* (?:\s*[-]\s*([^-\n]+?))?$ with re.IGNORECASE.  No group holds a dash, so
\* the dashes of the line decide which groups there are: segs are the
\* pieces between the dashes after the id, d, e and f the positions after
\* the digits of the id, after the id, and of the first dash.
BuildingMatchFrom(line, p) ==
    LET Groups(id, segs, year, is_year) ==
            IF /\ Len(segs) <= 3
               /\ segs[1] # ""
               /\ segs[Len(segs)] # ""
               /\ Len(segs) = 3 => is_year
            THEN [ok |-> TRUE,
                  building_id |-> id,
                  building_name |-> Strip(segs[1]),
                  building_year |-> IF Len(segs) >= 2 /\ is_year
                                    THEN ParseInt(year, 1, 4) ELSE None,
                  building_construction |->
                      IF Len(segs) = 3 THEN Strip(segs[3])
                      ELSE IF Len(segs) = 2 /\ ~is_year THEN Strip(segs[2])
                      ELSE None]
            ELSE [ok |-> FALSE]
        Year(id, segs, year) ==
            Groups(id, segs, year,
                   Len(year) = 4
                   /\ \A k \in 1..4 : IsDigit(SubSeq(year, k, k)))
        Segs(id, segs) ==
            Year(id, segs, IF Len(segs) >= 2 THEN Strip(segs[2]) ELSE "")
        Dash(e, f) ==
            IF f <= Len(line) /\ SubSeq(line, f, f) = "-"
            THEN Segs(SubSeq(line, p, e - 1),
                      Split(SubSeq(line, f + 1, Len(line)), "-"))
            ELSE [ok |-> FALSE]
        Id(d, e) ==
            IF d > p + 1 THEN Dash(e, SkipClass(line, e, Whitespace))
            ELSE [ok |-> FALSE]
        Digits(d) ==
            Id(d, IF d <= Len(line) /\ IsLetter(SubSeq(line, d, d))
                  THEN d + 1 ELSE d)
    IN IF p >= 1 /\ p <= Len(line) /\ IsLetter(SubSeq(line, p, p))
       THEN Digits(SkipClass(line, p + 1, {IntStr(n) : n \in 0..9}))
       ELSE [ok |-> FALSE]

\* match(line) of a header pattern: with the optional word, or else without
FirstMatch(with, without) == IF with.ok THEN with ELSE without

\* BUILDING_PATTERN.match(line)
BuildingMatch(line) ==
    FirstMatch(BuildingMatchFrom(line, AfterHashes(line, "building", TRUE)),
               BuildingMatchFrom(line, AfterHashes(line, "building", FALSE)))

\* [A-Z0-9]+-?R?\d+ matches the whole of id
RoomIdMatches(id) ==
    LET n == Len(id)
        alnum(a, b) == \A k \in a..b : IsLetter(SubSeq(id, k, k))
                                          \/ IsDigit(SubSeq(id, k, k))
        digits(a, b) == a <= b /\ \A k \in a..b : IsDigit(SubSeq(id, k, k))
        dashes == {k \in 1..n : SubSeq(id, k, k) = "-"}
    IN IF dashes = {} THEN n >= 2 /\ alnum(1, n) /\ digits(n, n)
       ELSE /\ Cardinality(dashes) = 1
            /\ LET q == CHOOSE k \in dashes : TRUE
               IN /\ q >= 2 /\ alnum(1, q - 1)
                  /\ \/ digits(q + 1, n)
                     \/ /\ q + 1 <= n
                        /\ LowerChar(SubSeq(id, q + 1, q + 1)) = "r"
                        /\ digits(q + 2, n)

\* ROOM_PATTERN from the position p of the room id on:
\* ([A-Z0-9]+-?R?\d+)\s*[-]\s*([^-\n]+?)$ with re.IGNORECASE (the group of
\* the area cannot match a text without the square metre).  The name holds
\* no dash, so the dash before it, sep, is the last of the line.
RoomMatchFrom(line, p) ==
    LET Groups(sep, id) ==
            IF /\ sep < Len(line)
               /\ sep > p
               /\ ~IsSpace(SubSeq(line, p, p))
               /\ RoomIdMatches(id)
            THEN [ok |-> TRUE, room_id |-> id,
                  room_name |-> Strip(SubSeq(line, sep + 1, Len(line)))]
            ELSE [ok |-> FALSE]
        Sep(sep) == Groups(sep, Strip(SubSeq(line, p, sep - 1)))
        Dashes(dashes) ==
            IF dashes # {}
            THEN Sep(CHOOSE k \in dashes : \A j \in dashes : j <= k)
            ELSE [ok |-> FALSE]
    IN IF p >= 1
       THEN Dashes({k \in p..Len(line) : SubSeq(line, k, k) = "-"})
       ELSE [ok |-> FALSE]

\* ROOM_PATTERN.match(line)
RoomMatch(line) ==
    FirstMatch(RoomMatchFrom(line, AfterHashes(line, "room", TRUE)),
               RoomMatchFrom(line, AfterHashes(line, "room", FALSE)))

\* AREA_TYPE_PATTERN.match(line), group(1).strip().title(): the area type
\* the line names as a word of its own after the hashes (at b) or after
\* the words Area Type (at c), or None
AreaTypeMatch(line) ==
    LET InWord(ch) == IsLetter(ch) \/ IsDigit(ch) \/ ch = "_"
        WordAt(p, word) ==
            /\ p >= 1 /\ p + Len(word) - 1 <= Len(line)
            /\ Lower(SubSeq(line, p, p + Len(word) - 1)) = Lower(word)
            /\ p = 1 \/ ~InWord(SubSeq(line, p - 1, p - 1))
            /\ \/ p + Len(word) > Len(line)
               \/ ~InWord(SubSeq(line, p + Len(word), p + Len(word)))
        Named(b, c) ==
            LET names == {w \in {"Exterior", "Interior", "Grounds"} :
                             WordAt(c, w) \/ WordAt(b, w)}
            IN IF names # {} THEN CHOOSE w \in names : TRUE ELSE None
        Type(b, t) ==
            Named(b, IF t > 0 /\ t + 3 <= Len(line)
                        /\ Lower(SubSeq(line, t, t + 3)) = "type"
                     THEN SkipClass(line, t + 4, Whitespace \cup {":"})
                     ELSE 0)
        Area(b) ==
            Type(b, IF b > 0 /\ b + 3 <= Len(line)
                       /\ Lower(SubSeq(line, b, b + 3)) = "area"
                    THEN SkipClass(line, b + 4, Whitespace) ELSE 0)
    IN Area(AfterHashes(line, "", FALSE))

\* SCHOOL_PATTERN.search(markdown_content), group(1).strip(): the first line
\* that begins with a hash and has no dash, or a dash followed by Asbestos,
\* ACM or SAMP; None when there is none
RECURSIVE SchoolMatch(_, _)
SchoolMatch(lines, i) ==
    IF i > Len(lines) THEN None
    ELSE LET line == lines[i]
             segs == Split(SubSeq(line, 2, Len(line)), "-")
             rest == SubSeq(line, Len(segs[1]) + 3, Len(line))
             w == SkipClass(rest, 1, Whitespace)
             Begins(word) ==
                 /\ w + Len(word) - 1 <= Len(rest)
                 /\ Lower(SubSeq(rest, w, w + Len(word) - 1)) = word
         IN IF /\ Len(line) >= 2 /\ SubSeq(line, 1, 1) = "#"
               /\ Strip(segs[1]) # ""
               /\ Len(segs) = 1
                  \/ Begins("asbestos") \/ Begins("acm") \/ Begins("samp")
            THEN Strip(segs[1])
            ELSE SchoolMatch(lines, i + 1)

\* [c.strip() for c in line.split("|")]
Cells(line) ==
    LET cells == Split(line, "|")
    IN [k \in 1..Len(cells) |-> Strip(cells[k])]

\* sep.join(parts)
RECURSIVE Join(_, _)
Join(parts, sep) ==
    IF parts = <<>> THEN ""
    ELSE IF Len(parts) = 1 THEN parts[1]
    ELSE parts[1] \o sep \o Join(Tail(parts), sep)

\* _looks_like_table_header; also the test of the header row in
\* _parse_acm_table
LooksLikeTableHeader(line) ==
    LET joined == Join(SelectSeq([k \in 1..Len(Cells(line)) |->
                                     Lower(Cells(line)[k])],
                                 LAMBDA c : c # ""), " ")
    IN \E header \in {"product", "material description", "result"} :
          Contains(joined, header)

\* _extract_table_lines: the lines of the table and the index after it
\* (indices counted from 1)
RECURSIVE ExtractTableLines(_, _, _)
ExtractTableLines(lines, i, table_lines) ==
    IF i > Len(lines) THEN [table_lines |-> table_lines, end_idx |-> i]
    ELSE LET line == Strip(lines[i])
         IN IF Contains(line, "|")
            THEN ExtractTableLines(lines, i + 1, Append(table_lines, line))
            ELSE IF line = "" /\ table_lines # <<>>
                    /\ i + 1 <= Len(lines) /\ Contains(lines[i + 1], "|")
            THEN ExtractTableLines(lines, i + 1, table_lines)
            ELSE IF table_lines # <<>>
            THEN [table_lines |-> table_lines, end_idx |-> i]
            ELSE [table_lines |-> table_lines, end_idx |-> i + 1]

\* _create_header_map: the field a header names, by the elif chain (the
\* optional fields, whose cells are copied and read by nothing, are "other")
HeaderField(header) ==
    IF Contains(header, "product") THEN "product"
    ELSE IF Contains(header, "material") /\ Contains(header, "desc")
    THEN "material_description"
    ELSE IF \E w \in {"extent", "location", "friable", "condition", "risk"} :
               Contains(header, w)
    THEN "other"
    ELSE IF Contains(header, "result") THEN "result"
    ELSE "none"

\* get_cell of _create_row_from_cells: the cell under the last header that
\* names the field, or None
GetCell(cells, headers, field) ==
    LET named == {k \in 1..Len(headers) : HeaderField(headers[k]) = field}
        idx == CHOOSE k \in named : \A j \in named : j <= k
    IN IF named # {} /\ idx <= Len(cells) /\ Strip(cells[idx]) # ""
       THEN Strip(cells[idx]) ELSE None

\* _create_row_from_cells: the row, or None (a sequence of one row or none)
CreateRowFromCells(cells, headers, context) ==
    LET product == GetCell(cells, headers, "product")
        material_desc == GetCell(cells, headers, "material_description")
        result == GetCell(cells, headers, "result")
    IN IF product = None \/ material_desc = None THEN <<>>
       ELSE <<[school_name |-> IF context.school_name # ""
                             THEN context.school_name ELSE "Unknown School",
             building_id |-> IF context.building_id # ""
                             THEN context.building_id ELSE "Unknown",
             building_name |-> context.building_name,
             building_year |-> context.building_year,
             building_construction |-> context.building_construction,
             room_id |-> context.room_id,
             room_name |-> context.room_name,
             room_area |-> context.room_area,
             area_type |-> context.area_type,
             page_number |-> context.current_page,
             product |-> product,
             material_description |-> material_desc,
             result |-> IF result = None THEN ""
                        ELSE IF Contains(Lower(result), "no asbestos")
                        THEN "Not Detected"
                        ELSE IF Contains(Lower(result), "detected")
                        THEN "Detected"
                        ELSE result]>>

\* _parse_acm_table: the loop over the lines from the k-th on
RECURSIVE ParseTableRows(_, _, _, _)
ParseTableRows(table_lines, k, headers, context) ==
    IF k > Len(table_lines) THEN <<>>
    ELSE LET line == table_lines[k]
             c0 == Cells(line)
             c1 == IF c0 # <<>> /\ c0[1] = "" THEN Tail(c0) ELSE c0
             cells == IF c1 # <<>> /\ c1[Len(c1)] = ""
                      THEN SubSeq(c1, 1, Len(c1) - 1) ELSE c1
             row == CreateRowFromCells(cells, headers, context)
             rest == ParseTableRows(table_lines, k + 1, headers, context)
         IN IF Contains(line, "---") \/ Len(cells) < 2 THEN rest
            ELSE row \o rest

\* _parse_acm_table
ParseAcmTable(table_lines, context) ==
    LET headers == SelectSeq([k \in 1..Len(Cells(table_lines[1])) |->
                                 Lower(Cells(table_lines[1])[k])],
                             LAMBDA h : h # "")
        data_start == IF Len(table_lines) > 2
                         /\ Contains(table_lines[2], "---") THEN 3 ELSE 2
    IN IF Len(table_lines) < 2 \/ ~LooksLikeTableHeader(table_lines[1])
       THEN <<>>
       ELSE ParseTableRows(table_lines, data_start, headers, context)

\* extract_acm_records, the header checks of one turn of its loop: the
\* context after the page marker, area type, building and room patterns
\* have been tried on the line, in this order
ScanHeaders(context, line) ==
    LET Page(c, page_matches) ==
            IF page_matches # <<>>
            THEN [c EXCEPT !.current_page = page_matches[1].number]
            ELSE c
        Area(c, area) ==
            IF area # None THEN [c EXCEPT !.area_type = area] ELSE c
        Building(c, building_match) ==
            IF building_match.ok
            THEN [c EXCEPT
                    !.building_id = building_match.building_id,
                    !.building_name = building_match.building_name,
                    !.building_year = building_match.building_year,
                    !.building_construction =
                        building_match.building_construction,
                    !.room_id = None, !.room_name = None,
                    !.room_area = None, !.area_type = "Interior"]
            ELSE c
        Room(c, room_match) ==
            IF room_match.ok
            THEN [c EXCEPT !.room_id = room_match.room_id,
                           !.room_name = room_match.room_name]
            ELSE c
    IN Room(Building(Area(Page(context, FindPages(line, 1)),
                          AreaTypeMatch(line)),
                     BuildingMatch(line)),
            RoomMatch(line))

-----------------------------------------------------------------------------
(* The helper functions applied on their own: no run is under way and the  *)
(* variable call holds one application, its arguments and its result        *)

\* no run is started
NoRun ==
    /\ inp = [r \in RunIds |->
                [entry |-> "function", source_id |-> "source:1",
                 source |-> OnePage, force |-> FALSE]]
    /\ pc = [r \in RunIds |-> "idle"]
    /\ attempt = [r \in RunIds |-> 1]
    /\ state = [r \in RunIds |-> InitialState]
    /\ loc = [r \in RunIds |-> NoLocals]
    /\ store = <<OldRow("source:1"), OldRow("source:2")>>
    /\ fnout = [r \in RunIds |-> NoResult]
    /\ out = [r \in RunIds |-> NoOutput]
    /\ hist = [r \in RunIds |-> NoHistory]

SeqsUpTo(S, n) == UNION {[1..k -> S] : k \in 0..n}

\* validated records as deduplicate_records receives them: four of one
\* place and material that differ in product, confidence and issues, and
\* two of another place
DedupRecords ==
    {Rec("B1", "Block A", "R1", "Office", "Tiles", "Vinyl tiles",
         "Detected", "low", <<"Blurry scan">>),
     Rec("B1", "Block A", "R1", "Office", "Floor Tiles", "Vinyl tiles",
         "Detected", "high", <<>>),
     Rec("B1", "Block A", "R1", "Office", "Vinyl Floor", "Vinyl tiles",
         "Presumed", "high", <<"Result unclear", "Blurry scan">>),
     Rec("B1", "Block A", "R1", "Office", "Lino", "Vinyl tiles",
         "Detected", "medium", <<"Page torn">>),
     Rec("B2", "Block B", None, None, "Eaves", "Cement sheet",
         "Not Detected", "medium", <<>>),
     Rec("B2", "Block B", None, None, "Eaves Lining", "Cement sheet",
         "Detected", "low", <<"Page torn">>)}

\* state["records"] and context.school_code as deduplicate_records reads them
DedupCalls ==
    {[fn |-> "deduplicate_records", records |-> records,
      school_code |-> school_code, done |-> FALSE, result |-> <<>>] :
        records \in SeqsUpTo(DedupRecords, MaxDedupLen),
        school_code \in {None, "1234"}}

\* deduplicate_records
CallDeduplicate ==
    /\ call.fn = "deduplicate_records"
    /\ ~call.done
    /\ \E deduplicated \in DeduplicateRecords(call.records, call.school_code) :
          call' = [call EXCEPT !.done = TRUE, !.result = deduplicated]
    /\ UNCHANGED runvars

\* the records _merge_records is given: those above and one whose
\* confidence is none of the ranked values
MergeInputs ==
    DedupRecords
    \cup {Rec("B1", "Block A", "R1", "Office", "Sheet Vinyl", "Vinyl tiles",
               "Detected", "certain", <<"Blurry scan">>)}

NoRecord == Rec(None, None, None, None, None, None, None, None, <<>>)

\* existing and new as _merge_records receives them
MergeCalls ==
    {[fn |-> "_merge_records", existing |-> existing, new |-> new,
      calls |-> 0, result |-> NoRecord,
      again_with |-> NoRecord, again |-> NoRecord] :
        existing \in MergeInputs, new \in MergeInputs}

\* _merge_records(existing, new)
CallMerge ==
    /\ call.fn = "_merge_records"
    /\ call.calls = 0
    /\ \E merged \in MergeRecords(call.existing, call.new) :
          call' = [call EXCEPT !.calls = 1, !.result = merged]
    /\ UNCHANGED runvars

\* _merge_records(result, input): the result of the first call merged again
\* with one of the two records it was made from
CallMergeAgain ==
    /\ call.fn = "_merge_records"
    /\ call.calls = 1
    /\ \E input \in {call.existing, call.new} :
          \E merged \in MergeRecords(call.result, input) :
             call' = [call EXCEPT !.calls = 2, !.again_with = input,
                                  !.again = merged]
    /\ UNCHANGED runvars

\* a text of exactly DescPrefixLen characters
FiftyChars == "Fibre cement sheet lining to the eaves and gables,"

\* the records and school codes _generate_dedup_key is given: present and
\* missing codes and ids, ids that contain the separator, and descriptions
\* that differ within and only after their first DescPrefixLen characters
KeyInputs ==
    {[school_code |-> sc,
      record |-> Rec(b, None, r, None, "Sheet", d, "Detected", "high", <<>>)] :
        sc \in {None, "1234"},
        b \in {None, "B1", "B1_R1"},
        r \in {None, "A", "R1_A"},
        d \in {"Vinyl tiles", "Vinyl tiles batch 23920",
               "Vinyl tiles batch 77775",
               FiftyChars \o " north wall", FiftyChars \o " south wall"}}

KeyCalls ==
    {[fn |-> "_generate_dedup_key", a |-> a, b |-> b, done |-> FALSE,
      key_a |-> None, key_b |-> None] : a \in KeyInputs, b \in KeyInputs}

\* _generate_dedup_key on each of two records
CallGenerateDedupKey ==
    /\ call.fn = "_generate_dedup_key"
    /\ ~call.done
    /\ call' = [call EXCEPT
                  !.done = TRUE,
                  !.key_a = GenerateDedupKey(call.a.record, call.a.school_code),
                  !.key_b = GenerateDedupKey(call.b.record, call.b.school_code)]
    /\ UNCHANGED runvars

\* the result texts a model can return
ResultTexts ==
    {"No Asbestos Detected", "NAD", "not detected", "Detected", "POSITIVE",
     "Presumed", "Presumed ACM - Not Detected in sample",
     "Positive, presumed throughout", "Detected, sent to Canada",
     "Inconclusive", "Unknown", ""}

\* extracted records as validate_records receives them: any result text,
\* with and without a building id
ValidateInputs ==
    {Rec(b, None, "R1", "Office", "Tiles", "Vinyl tiles", res, "high",
         <<"Blurry scan">>) :
        b \in {None, "B1"}, res \in ResultTexts}

\* state["records"] and state["context"] as validate_records reads them
ValidateCalls ==
    {[fn |-> "validate_records", records |-> records, context |-> context,
      done |-> FALSE, records_out |-> <<>>, records_rejected |-> 0] :
        records \in SeqsUpTo(ValidateInputs, MaxValidateLen),
        context \in {BuildingRoomContext,
                     [BuildingRoomContext EXCEPT !.building_id = "B9"]}}

\* validate_records
CallValidate ==
    /\ call.fn = "validate_records"
    /\ ~call.done
    /\ LET update == ValidateRecords(call.records, call.context)
       IN call' = [call EXCEPT !.done = TRUE,
                               !.records_out = update.records,
                               !.records_rejected = update.records_rejected]
    /\ UNCHANGED runvars

\* the pages of the documents: the marker line, the number a reader sees
\* in it, and the text below it.  The third page has section headings and
\* the fourth is one long paragraph.
DocumentPages ==
    {[marker |-> "--- Page 1 ---", number |-> 1, body |-> "\nalpha beta\n"],
     [marker |-> "--- page 12 ---", number |-> 12, body |-> "\ngamma\n"],
     [marker |-> "-- PAGE 007 --", number |-> 7,
      body |-> "\n# Roof\nsheet one\n## Eaves\nsheet two\n"],
     [marker |-> "---Page 3---", number |-> 3,
      body |-> "\nlagging to the pipes of the boiler room\n"]}

\* the text of a document: what stands before the first marker, then the
\* pages
RECURSIVE Render(_)
Render(pages) ==
    IF pages = <<>> THEN ""
    ELSE Head(pages).marker \o Head(pages).body \o Render(Tail(pages))

\* content and context_window as _chunk_content receives them (pages and
\* preamble record how content was put together)
ChunkCalls ==
    {[fn |-> "_chunk_content", content |-> preamble \o Render(pages),
      preamble |-> preamble, pages |-> pages,
      context_window |-> context_window, at |-> "start", chunks |-> <<>>,
      start |-> 0, page_num |-> 1] :
        preamble \in {"", "Asbestos register\n"},
        pages \in SeqsUpTo(DocumentPages, MaxPages),
        context_window \in {4, 12, 16, DEFAULT_CONTEXT_WINDOW}}

\* _chunk_content up to the character windows: the single chunk of a text
\* under the threshold, or the chunks of the pages
CallChunkContent ==
    /\ call.fn = "_chunk_content"
    /\ call.at = "start"
    /\ LET content == call.content
           tokens == TokenCount(content)
           threshold == ChunkThreshold(call.context_window)
           page_matches == FindPages(content, 1)
       IN IF tokens <= threshold
          THEN call' = [call EXCEPT
                          !.at = "done",
                          !.chunks = <<[content |-> content, page_number |-> 1,
                                        chunk_index |-> 0]>>]
          ELSE IF page_matches # <<>>
          THEN call' = [call EXCEPT
                          !.at = "done",
                          !.chunks = PageChunks(content, page_matches, 1,
                                                threshold, <<>>)]
          ELSE call' = [call EXCEPT !.at = "window"]
    /\ UNCHANGED runvars

\* _chunk_content without page markers: one turn of the while loop over
\* the character windows, or its end
ChunkWindowStep ==
    /\ call.fn = "_chunk_content"
    /\ call.at = "window"
    /\ Len(call.chunks) < MaxWindowChunks
    /\ LET content == call.content
           chunk_size == ChunkThreshold(call.context_window)
                            * CHARS_PER_TOKEN_ESTIMATE
           overlap == CHUNK_OVERLAP_CHARS
           start == call.start
           window_end == Min(start + chunk_size, Len(content))
           newline_pos == IF window_end < Len(content)
                          THEN RFindNewline(content,
                                            start + chunk_size - overlap,
                                            window_end)
                          ELSE -1
           end == IF newline_pos > start THEN newline_pos + 1 ELSE window_end
       IN IF start < Len(content)
          THEN call' = [call EXCEPT
                          !.chunks = Append(@, [content |-> Slice(content, start, end),
                                                page_number |-> call.page_num,
                                                chunk_index |-> Len(@)]),
                          !.start = IF end < Len(content) THEN end - overlap
                                    ELSE end,
                          !.page_num = @ + 1]
          ELSE call' = [call EXCEPT !.at = "done"]
    /\ UNCHANGED runvars

\* The pieces the documents of the parser are made of, as the tests of the
\* parser write them: a title, a page marker, building headers and room
\* headers with and without the optional word, an area type header, a blank
\* line, a table that is not a register, and register tables whose rows
\* (product, material description, result) have a cell empty here and there.
\* id, name and page say what a header or marker states.
DocumentItems ==
    LET Line(kind, line, id, name, page) ==
            [kind |-> kind, lines |-> <<line>>, id |-> id, name |-> name,
             page |-> page, rows |-> <<>>]
        Table(head, rows) ==
            [kind |-> "table",
             lines |-> head \o [k \in 1..Len(rows) |->
                                  "| " \o rows[k][1] \o " | " \o rows[k][2]
                                  \o " | " \o rows[k][3] \o " |"],
             id |-> None, name |-> None, page |-> 0, rows |-> rows]
    IN {Line("title", "# Hilltop School - Asbestos Register", None,
             "Hilltop School", 0),
        Line("page", "--- Page 3 ---", None, None, 3),
        Line("building", "## B1 - Block A", "B1", "Block A", 0),
        Line("building", "## Building: B2 - Hall - 1972 - Brick", "B2",
             "Hall", 0),
        Line("area", "## Exterior", None, "Exterior", 0),
        Line("room", "### R2 - Store", "R2", "Store", 0),
        Line("room", "### Room: B1-R1 - Office", "B1-R1", "Office", 0),
        Line("blank", "", None, None, 0),
        [kind |-> "other",
         lines |-> <<"| Item | Qty |", "|---|---|", "| Tiles | 4 |">>,
         id |-> None, name |-> None, page |-> 0, rows |-> <<>>],
        Table(<<"| Product | Material Description | Result |",
                "|---------|---------------------|--------|">>,
              << <<"Floor Tiles", "Vinyl tiles", "Detected">>,
                 <<"", "Loose fill", "NAD">>,
                 <<"Pipe Lagging", "ACM insulation", "No asbestos found">> >>),
        Table(<<"| Product | Material Description | Result |">>,
              << <<"Putty", "", "Detected">>,
                 <<"Sheet", "Cement", "Not Detected">> >>)}

\* The lines of a document, each with the piece it belongs to
RECURSIVE MarkdownLines(_)
MarkdownLines(items) ==
    IF items = <<>> THEN <<>>
    ELSE [k \in 1..Len(Head(items).lines) |->
             [line |-> Head(items).lines[k], item |-> Head(items)]]
         \o MarkdownLines(Tail(items))

\* extract_acm_records is handed a document, or no text at all.  raised
\* says whether the call ended in an exception: no statement of the function
\* can raise one (the year is four digits, the page number digits).
ParserCalls ==
    {[fn |-> "extract_acm_records",
      items |-> IF absent THEN <<>> ELSE items,
      markdown_content |->
          IF absent THEN None
          ELSE Join([k \in 1..Len(MarkdownLines(items)) |->
                        MarkdownLines(items)[k].line], "\n"),
      at |-> "start", lines |-> <<>>, i |-> 0, context |-> ParseContext,
      extracted_rows |-> <<>>, result |-> <<>>, raised |-> FALSE] :
        items \in SeqsUpTo(DocumentItems, MaxItems),
        absent \in BOOLEAN}

\* extract_acm_records without the test of line 137: None has no split
CallExtractAcmRecordsUnguarded ==
    /\ call.fn = "extract_acm_records"
    /\ call.at = "start"
    /\ IF call.markdown_content = None
       THEN call' = [call EXCEPT !.at = "done", !.raised = TRUE]
       ELSE LET lines == Split(call.markdown_content, "\n")
                school == SchoolMatch(lines, 1)
            IN call' = [call EXCEPT
                          !.at = "loop", !.lines = lines, !.i = 1,
                          !.context.school_name =
                              IF school # None THEN school ELSE ""]
    /\ UNCHANGED runvars

\* extract_acm_records up to its loop: nothing to read, or the school name
\* and the lines
CallExtractAcmRecords ==
    /\ call.fn = "extract_acm_records"
    /\ call.at = "start"
    /\ IF call.markdown_content \in {None, ""}
       THEN call' = [call EXCEPT !.at = "done", !.result = <<>>]
       ELSE LET lines == Split(call.markdown_content, "\n")
                school == SchoolMatch(lines, 1)
            IN call' = [call EXCEPT
                          !.at = "loop", !.lines = lines, !.i = 1,
                          !.context.school_name =
                              IF school # None THEN school ELSE ""]
    /\ UNCHANGED runvars

\* extract_acm_records, one turn of its loop over the lines (a table is
\* read whole in one turn), and the conversion to dicts after the last
ExtractLoopStep ==
    /\ call.fn = "extract_acm_records"
    /\ call.at = "loop"
    /\ IF call.i > Len(call.lines)
       THEN call' = [call EXCEPT
                       !.at = "done",
                       !.result = [k \in 1..Len(call.extracted_rows) |->
                                      [source_id |-> "source:123"]
                                      @@ call.extracted_rows[k]]]
       ELSE LET Turn(line, context, table) ==
                    IF Contains(line, "|") /\ LooksLikeTableHeader(line)
                    THEN [call EXCEPT
                            !.context = context,
                            !.extracted_rows =
                                IF table.table_lines # <<>>
                                THEN @ \o ParseAcmTable(table.table_lines,
                                                        context)
                                ELSE @,
                            !.i = table.end_idx]
                    ELSE [call EXCEPT !.context = context, !.i = @ + 1]
            IN call' = Turn(Strip(call.lines[call.i]),
                            ScanHeaders(call.context,
                                        Strip(call.lines[call.i])),
                            ExtractTableLines(call.lines, call.i, <<>>))
    /\ UNCHANGED runvars

\* extract_records is called on a chunk of two, first or second, at any
\* retry_count, with records of an earlier chunk or none and the context
\* they left, and the model answers: one of ModelResponses, or records
\* whose last names a building and no room, or a room and no building
ExtractCalls ==
    {[fn |-> "extract_records",
      state |-> [InitialState EXCEPT
                   !.chunks = ChunkContent(<<"page 1", "page 2">>),
                   !.current_chunk_index = index,
                   !.retry_count = retry_count,
                   !.records = records,
                   !.context = ContextAfter(BuildingRoomContext, records)],
      response |-> response, done |-> FALSE, update |-> <<>>] :
        index \in 0..1, retry_count \in 0..MAX_RETRIES,
        records \in {<<>>, <<rTiles>>, <<rBlank>>},
        response \in ModelResponses
                     \cup {<<rTiles, rNoProduct>>,
                           <<Rec("B3", "Hall", "B3-R1", "Stage", "Sheet",
                                 "Cement sheet", "NAD", "high", <<>>),
                             Rec("", None, "R7", "Store", "Putty",
                                 "Window putty", "Detected", "medium", <<>>)>>}}

\* extract_records where the model answers: the update it returns
CallExtractRecords ==
    /\ call.fn = "extract_records"
    /\ ~call.done
    /\ call' = [call EXCEPT
                  !.done = TRUE,
                  !.update = ExtractSuccess(call.state,
                                 ACMExtractionResult(call.response, "valid",
                                                     0, 0))]
    /\ UNCHANGED runvars

\* one result text as both paths meet it: in the result cell of a table row
\* of the parser and in the result of a record of the validator (parsed
\* and validated are empty until the path has been taken)
ResultCalls ==
    {[fn |-> "result_text", text |-> text, parsed |-> <<>>, validated |-> <<>>] :
        text \in ResultTexts \cup {"Not Detected"}}

\* _create_row_from_cells on a row whose result cell holds the text
ParseResultCell ==
    /\ call.fn = "result_text"
    /\ call.parsed = <<>>
    /\ LET row == CreateRowFromCells(
                      <<"Sheet", "Cement sheet", call.text>>,
                      <<"product", "material description", "result">>,
                      ParseContext)
       IN call' = [call EXCEPT !.parsed = <<row[1].result>>]
    /\ UNCHANGED runvars

\* validate_records on a record whose result is the text
ValidateResultText ==
    /\ call.fn = "result_text"
    /\ call.validated = <<>>
    /\ LET update == ValidateRecords(
                         <<Rec("B1", None, "R1", "Office", "Sheet",
                               "Cement sheet", call.text, "high", <<>>)>>,
                         BuildingRoomContext)
       IN call' = [call EXCEPT !.validated = <<update.records[1].result>>]
    /\ UNCHANGED runvars

HelperInit ==
    /\ NoRun
    /\ \/ call \in DedupCalls
       \/ call \in MergeCalls
       \/ call \in KeyCalls
       \/ call \in ValidateCalls
       \/ call \in ChunkCalls
       \/ call \in ParserCalls
       \/ call \in ExtractCalls
       \/ call \in ResultCalls

HelperNext ==
    \/ CallDeduplicate
    \/ CallMerge
    \/ CallMergeAgain
    \/ CallGenerateDedupKey
    \/ CallValidate
    \/ CallChunkContent
    \/ ChunkWindowStep
    \/ CallExtractAcmRecords
    \/ ExtractLoopStep
    \/ CallExtractRecords
    \/ ParseResultCell
    \/ ValidateResultText

HelperSpec == HelperInit /\ [][HelperNext]_vars

-----------------------------------------------------------------------------
(* Properties *)

Active == {r \in RunIds : pc[r] # "idle"}

\* the step is a call of the model for the current chunk that failed
FailedCall(r) == hist'[r].invocations = hist[r].invocations + 1

\* the step is a call of the model for the current chunk that answered
AnsweredCall(r) == Len(hist'[r].extracted) = Len(hist[r].extracted) + 1

\* the graph ended with an error set: the state FAILED
Failed(r) == pc[r] \in {"fn_return", "cmd_return", "done"} /\ Truthy(state[r].error)

\* C1 (bound): retry_count never exceeds MAX_RETRIES and no chunk is given
\* to the model more than MAX_RETRIES + 1 times
C1_Bound ==
    \A r \in RunIds :
        /\ state[r].retry_count <= MAX_RETRIES
        /\ hist[r].invocations <= MAX_RETRIES + 1

\* C1 (step): a failed model call with retry_count < MAX_RETRIES goes back
\* to extract for the same chunk with retry_count one higher; a failed call
\* with retry_count = MAX_RETRIES ends the graph with an error
C1_Step ==
    \A r \in RunIds :
        FailedCall(r) =>
            IF state[r].retry_count < MAX_RETRIES
            THEN /\ pc'[r] = "extract"
                 /\ state'[r].retry_count = state[r].retry_count + 1
                 /\ state'[r].current_chunk_index = state[r].current_chunk_index
                 /\ ~Truthy(state'[r].error)
            ELSE /\ pc'[r] = "fn_return"
                 /\ Truthy(state'[r].error)
                 /\ state'[r].retry_count = state[r].retry_count

\* C1: a failed model call is retried on the same chunk while
\* retry_count < 3 and fails the run at retry_count = 3, so retry_count
\* never exceeds 3 and no chunk gets more than 4 model invocations
C1_BoundedRetry == [](C1_Bound) /\ [][C1_Step]_vars

\* a run failed on the fourth call for a chunk
C1_Witness ==
    \E r \in RunIds :
        /\ Failed(r)
        /\ state[r].retry_count = MAX_RETRIES
        /\ hist[r].invocations = MAX_RETRIES + 1

\* the indices 0 .. n-1 in order
Indices(n) == [i \in 1..n |-> i - 1]

\* C2 (state): the chunks extracted so far are exactly those before
\* current_chunk_index, each once and in order, and from validate on they
\* are all the chunks
C2_State ==
    \A r \in RunIds :
        /\ hist[r].extracted = Indices(state[r].current_chunk_index)
        /\ pc[r] \in {"validate", "deduplicate", "save"} =>
              state[r].current_chunk_index = Len(state[r].chunks)

\* C2 (step): current_chunk_index moves only by one, only with an answered
\* call for the chunk at that index; a failed call leaves it and the
\* accumulated records as they were
C2_Step ==
    \A r \in RunIds :
        /\ state'[r].current_chunk_index \in
              {state[r].current_chunk_index, state[r].current_chunk_index + 1}
        /\ state'[r].current_chunk_index = state[r].current_chunk_index + 1 =>
              /\ pc[r] = "extract"
              /\ hist'[r].extracted =
                    Append(hist[r].extracted, state[r].current_chunk_index)
        /\ FailedCall(r) =>
              /\ state'[r].current_chunk_index = state[r].current_chunk_index
              /\ state'[r].records = state[r].records

\* C2: chunks are extracted strictly in index order, one index at a time
\* and only on success, and validate is entered only once every chunk has
\* been extracted exactly once
C2_SequentialChunks == [](C2_State) /\ [][C2_Step]_vars

\* validate is reached after two chunks
C2_Witness ==
    \E r \in RunIds :
        /\ pc[r] = "validate"
        /\ Len(state[r].chunks) >= 2
        /\ hist[r].extracted = Indices(Len(state[r].chunks))

IsPrefix(p, q) == Len(p) <= Len(q) /\ SubSeq(q, 1, Len(p)) = p

StageOrder == <<"prepare", "extract", "validate", "deduplicate", "save">>

\* C3 (state): the nodes run in stage order; a run in save, or one that
\* tried a save, went through all the earlier stages and extracted every
\* chunk; a run that failed in prepare or extract tried no save
C3_State ==
    \A r \in RunIds :
        /\ IsPrefix(hist[r].nodes, StageOrder)
        /\ (pc[r] = "save" \/ hist[r].saves # <<>>) =>
              /\ IsPrefix(<<"prepare", "extract", "validate", "deduplicate">>,
                          hist[r].nodes)
              /\ hist[r].extracted = Indices(Len(state[r].chunks))
              /\ Len(state[r].chunks) > 0
        /\ (Failed(r) /\ IsPrefix(hist[r].nodes, <<"prepare", "extract">>)) =>
              hist[r].saves = <<>>

\* C3 (step): a row enters the table only by a step of a run that is in
\* save, and that step is recorded as one of its saves
C3_Step ==
    Len(store') > Len(store) =>
        \E r \in RunIds :
            /\ pc[r] = "save"
            /\ Len(hist'[r].saves) = Len(hist[r].saves) + 1

\* C3: records are saved only in SAVE, which comes after PREPARE, the
\* extraction of every chunk, VALIDATE and DEDUPLICATE in that order; a run
\* that fails in PREPARE or EXTRACT saves nothing
C3_SaveOnlyAfterAllStages == [](C3_State) /\ [][C3_Step]_vars

\* a record was saved
C3_Witness ==
    \E r \in RunIds :
        /\ hist[r].nodes = StageOrder
        /\ \E k \in 1..Len(hist[r].saves) : hist[r].saves[k].saved
        /\ Len(store) > 2

\* the longest answer of the model
MaxResponseLen ==
    CHOOSE n \in {Len(recs) : recs \in ModelResponses} :
        \A recs \in ModelResponses : Len(recs) <= n

\* what one chunk can cost: its failed calls, its answer, its records
ChunkWork == MaxResponseLen + MAX_RETRIES + 1

\* the steps run r can still take, at most: the stages left, the chunks left
\* with their retries, the records left to save, the attempts left
Measure(r) ==
    LET st == state[r]
        n == Len(st.records)
        whole == Len(inp[r].source.full_text) * ChunkWork
        local ==
            CASE pc[r] \in {"idle", "done"} -> 0
              [] pc[r] = "cmd_return" -> 1
              [] pc[r] \in {"fn_return", "fn_except"} -> 2
              [] pc[r] = "save" -> 3 + (n - loc[r].i + 1)
              [] pc[r] = "deduplicate" -> 4 + n
              [] pc[r] = "validate" -> 5 + n
              [] pc[r] = "extract" ->
                    6 + n + (Len(st.chunks) - st.current_chunk_index) * ChunkWork
                      - st.retry_count
              [] pc[r] = "prepare" -> 7 + whole
              [] pc[r] = "fn_start" -> 8 + whole
              [] pc[r] = "cmd_delete" -> 9 + whole
              [] pc[r] = "cmd_raised" -> 10 + whole
              [] pc[r] = "cmd_start" -> 11 + whole
    IN IF pc[r] \in {"idle", "done"} THEN 0
       ELSE (MaxAttempts - attempt[r]) * (12 + whole) + local

RECURSIVE SumMeasure(_)
SumMeasure(S) ==
    IF S = {} THEN 0
    ELSE LET r == CHOOSE x \in S : TRUE IN Measure(r) + SumMeasure(S \ {r})

\* the run is over: its caller has the outcome (DONE or FAILED)
Terminal(r) == pc[r] = "done" /\ out[r].kind \in {"returned", "raised"}

\* a run that is not over can take a step: it stands at validate or save,
\* whose actions have no guard but the node (save: a record is left, or none
\* is), or at deduplicate with a list to go on with, or one of the entry,
\* extract, exit and retry actions is enabled
CanStep(r) ==
    \/ pc[r] = "validate"
    \/ pc[r] = "save" /\ (\/ loc[r].i <= Len(state[r].records)
                           \/ loc[r].i > Len(state[r].records))
    \/ /\ pc[r] = "deduplicate"
       /\ DeduplicateRecords(state[r].records,
                              state[r].context.school_code) # {}
    \/ ENABLED (CmdLoadSource(r) \/ CmdDelete(r) \/ FnStart(r) \/ Prepare(r)
                   \/ Extract(r) \/ FnReturn(r) \/ FnExcept(r)
                   \/ CmdReturn(r) \/ Retrier(r))

\* C4 (state): a run that is not over can take a step, and what is left of
\* it is never negative
C4_State ==
    \A r \in Active :
        /\ Measure(r) >= 0
        /\ Terminal(r) \/ CanStep(r)

\* C4 (step): every step leaves strictly less to do
C4_Step == SumMeasure(RunIds)' < SumMeasure(RunIds)

\* C4: every run reaches DONE or FAILED after finitely many steps, whatever
\* the chunk list and the model's successes and failures: each step lowers
\* a natural-number measure made of the stages, chunks, retries and records
\* left, and a run that is not over can always step
C4_Terminates == [](C4_State) /\ [][C4_Step]_vars

\* a run ended after extracting two chunks, and one ended by exhausting the
\* retries of a chunk
C4_Witness ==
    \E r \in RunIds :
        /\ Terminal(r)
        /\ Len(hist[r].extracted) >= 1
        /\ hist[r].invocations = MAX_RETRIES + 1

\* the messages of the failures for want of content: prepare_context's and
\* the command's
NoContentErrors ==
    {"Source has no content to extract", "Source has no text content"}

\* the command could not load the source at all
InputRejectedErrors ==
    {"source_id must be a non-empty string", "Database error", "Source not found"}

\* the caller of run r was returned a failed outcome with a message of msgs
FailedOutcome(r, msgs) ==
    /\ out[r].kind = "returned"
    /\ IF inp[r].entry = "function"
       THEN out[r].value.status = "failed" /\ out[r].value.error \in msgs
       ELSE ~out[r].value.success /\ out[r].value.error_message \in msgs

\* the run ended before the text of the source was looked at
SourceUnavailable(r) ==
    \/ out[r] = Raised("RuntimeError")
    \/ inp[r].entry = "command" /\ FailedOutcome(r, InputRejectedErrors)

\* C5: a run on a source whose full_text is absent or empty fails with a
\* "no content" error: no chunk is produced, the model is never invoked, no
\* record is saved and the caller receives a failed outcome with that message
C5_NoContentFails ==
    \A r \in Active :
        Terminal(r) /\ inp[r].source.full_text = <<>> /\ ~SourceUnavailable(r)
            => /\ FailedOutcome(r, NoContentErrors)
               /\ state[r].chunks = <<>>
               /\ ~hist[r].any_invoked
               /\ hist[r].saves = <<>>

\* the three required fields are there, the building after inference from
\* the context
Complete(record, context) ==
    /\ Truthy(record.building_id) \/ Truthy(context.building_id)
    /\ Truthy(record.product)
    /\ Truthy(record.material_description)

HasRequired(record) ==
    /\ Truthy(record.building_id)
    /\ Truthy(record.product)
    /\ Truthy(record.material_description)

\* the run has been through node
Visited(r, node) == \E k \in 1..Len(hist[r].nodes) : hist[r].nodes[k] = node

\* C6 (state): from the end of VALIDATE on, through DEDUPLICATE and SAVE,
\* every record of the run has a building_id, a product and a
\* material_description, and so has every row saved
C6_State ==
    /\ \A r \in Active :
          Visited(r, "validate") =>
              \A i \in 1..Len(state[r].records) : HasRequired(state[r].records[i])
    /\ \A i \in 1..Len(store) : HasRequired(store[i])

\* C6 (step): VALIDATE keeps exactly the records that are complete after
\* context inference, in order, and counts the others
C6_Step ==
    \A r \in RunIds :
        pc[r] = "validate" /\ pc'[r] # "validate" =>
            LET before == state[r].records
                kept == {i \in 1..Len(before) : Complete(before[i], state[r].context)}
            IN /\ Len(state'[r].records) = Cardinality(kept)
               /\ state'[r].records_rejected = Len(before) - Cardinality(kept)
               /\ Len(state'[r].records) + state'[r].records_rejected = Len(before)
               /\ \A i \in 1..Len(state'[r].records) :
                     HasRequired(state'[r].records[i])

\* C6: every record that leaves VALIDATE has a non-empty building_id,
\* product and material_description; the records still missing one after
\* context inference are excluded and counted, so that survivors +
\* records_rejected = accumulated records
C6_ValidatedRecordsComplete == [](C6_State) /\ [][C6_Step]_vars

\* VALIDATE rejected a record and kept one whose building was inferred
C6_Witness ==
    \E r \in RunIds :
        /\ pc[r] = "deduplicate"
        /\ state[r].records_rejected > 0
        /\ \E i \in 1..Len(state[r].records) :
              \E k \in 1..Len(state[r].records[i].data_issues) :
                 state[r].records[i].data_issues[k]
                     = "Building ID inferred from context"

\* the saves of run r that succeeded, and those that failed
SavesWith(r, saved) ==
    {k \in 1..Len(hist[r].saves) : hist[r].saves[k].saved = saved}

\* the SAVE of run r is over
SaveOver(r) == Visited(r, "save") /\ pc[r] # "save"

\* C7: SAVE attempts every deduplicated record exactly once, in order,
\* whatever became of the earlier ones (saved + failed = deduplicated
\* records), and the result's status is valid when a save succeeded and
\* no_acm_data when none did
C7_SaveAttemptsAll ==
    \A r \in Active :
        /\ \A k \in 1..Len(hist[r].saves) : hist[r].saves[k].index = k
        /\ Len(hist[r].saves) <= Len(state[r].records)
        /\ pc[r] = "save" => Len(hist[r].saves) = loc[r].i - 1
        /\ Visited(r, "save") =>
              /\ loc[r].saved_count = Cardinality(SavesWith(r, TRUE))
              /\ Len(loc[r].errors) = Cardinality(SavesWith(r, FALSE))
        /\ SaveOver(r) =>
              /\ Len(hist[r].saves) = Len(state[r].records)
              /\ loc[r].saved_count + Len(loc[r].errors) = Len(state[r].records)
              /\ state[r].extraction_result.status =
                    IF SavesWith(r, TRUE) # {} THEN "valid" ELSE "no_acm_data"

\* SAVE is over, and a record was saved after the save of an earlier one
\* had failed
C7_Witness ==
    \E r \in RunIds :
        /\ SaveOver(r)
        /\ \E j, k \in 1..Len(hist[r].saves) :
              j < k /\ ~hist[r].saves[j].saved /\ hist[r].saves[k].saved

\* some record of the run was saved and the save of another failed
PartialSave(r) == SavesWith(r, TRUE) # {} /\ SavesWith(r, FALSE) # {}

\* C8: a partial save is not fatal: the entry point returns a status that is
\* not failed, the count of the records saved and the error summary
C8_PartialSaveNotFatal ==
    \A r \in Active :
        Terminal(r) /\ PartialSave(r) =>
            /\ out[r].kind = "returned"
            /\ IF inp[r].entry = "function"
               THEN /\ out[r].value.status # "failed"
                    /\ out[r].value.total_records = loc[r].saved_count
                    /\ out[r].value.error = state[r].error
               ELSE /\ out[r].value.success
                    /\ out[r].value.records_created = loc[r].saved_count
            /\ Truthy(state[r].error)

\* the outcome is a summary, with an error string if it reports a failure
Summary(o, entry) ==
    /\ o.kind = "returned"
    /\ IF entry = "function"
       THEN o.value.status = "failed" => Truthy(o.value.error)
       ELSE ~o.value.success => Truthy(o.value.error_message)

\* C9: the callers of extract_acm_from_source and of the acm_extract command
\* always receive a structured summary, never a raw exception, whatever
\* fails, and on failure the summary carries an error string
C9_AlwaysSummary ==
    \A r \in Active : pc[r] = "done" => Summary(out[r], inp[r].entry)

\* the command returned before its forced delete: it had no source_id, or
\* could not load the source, or the source had no text
RejectedByCommand(r) ==
    /\ inp[r].entry = "command"
    /\ \/ out[r] = Raised("RuntimeError")
       \/ FailedOutcome(r, InputRejectedErrors \cup NoContentErrors)

\* C10 as stated: with force=true the records of the source are deleted
\* exactly once per run, before any model call or save; with force=false
\* never
C10_DeletedOncePerRun ==
    \A r \in Active :
        /\ hist[r].deletes > 0 => hist[r].deletes = 1 /\ inp[r].force
        /\ inp[r].force /\ (hist[r].any_invoked \/ hist[r].saves # <<>>)
              => hist[r].deletes = 1
        /\ inp[r].force /\ Terminal(r) => hist[r].deletes = 1

\* C10 (state): delete_by_source is called at most once in a run, never
\* with force=false, and exactly once in a forced run that reaches the
\* extraction graph; a forced run ends without it only when the command
\* rejected its input
C10_State ==
    \A r \in Active :
        /\ hist[r].deletes <= 1
        /\ ~inp[r].force => hist[r].deletes = 0
        /\ inp[r].force /\ hist[r].nodes # <<>> => hist[r].deletes = 1
        /\ inp[r].force /\ Terminal(r) =>
              hist[r].deletes = 1 \/ RejectedByCommand(r)

\* C10 (step): the delete comes before PREPARE, any model call and any save
C10_Step ==
    \A r \in RunIds :
        hist'[r].deletes > hist[r].deletes =>
            /\ hist[r].nodes = <<>>
            /\ ~hist[r].any_invoked
            /\ hist[r].saves = <<>>

\* C10, amended: with force=true delete_by_source is called exactly once per
\* run, before any model call or save, unless the command rejects the input
\* first, and then it is not called; with force=false it is never called
C10_ForcedDelete == [](C10_State) /\ [][C10_Step]_vars

\* a forced run deleted, then called the model and saved
C10_Witness ==
    \E r \in RunIds :
        /\ inp[r].force
        /\ hist[r].deletes = 1
        /\ hist[r].any_invoked
        /\ hist[r].saves # <<>>
        /\ Terminal(r)

\* what tells two rows of the table apart: their scalar fields
Scalars(row) ==
    <<row.source_id, row.school_name, row.building_id, row.room_id,
      row.product, row.material_description, row.result,
      row.extraction_confidence>>

\* the rows of a source in the table, and the rows run r has saved
RowsOf(rows, source_id) ==
    LET own == SelectSeq(rows, LAMBDA row : row.source_id = source_id)
    IN [k \in 1..Len(own) |-> Scalars(own[k])]

SavedRows(r) ==
    LET done == SelectSeq(hist[r].saves, LAMBDA s : s.saved)
    IN [k \in 1..Len(done) |->
          Scalars(ACMRecord(inp[r].source_id, state[r].context,
                            state[r].records[done[k].index]))]

\* the forced delete of run r went through
DeleteSucceeded(r) ==
    hist[r].deletes = 1 /\ ~(pc[r] = "done" /\ hist[r].nodes = <<>>)

\* C11 (state): once the forced delete of a run went through, the table
\* holds for the source exactly the rows this run has saved, however many
\* runs came before; a finished forced run whose delete did not go through
\* has saved nothing
C11_State ==
    \A r \in Active :
        inp[r].force =>
            /\ DeleteSucceeded(r) =>
                  RowsOf(store, SourceRecordId(inp[r].source_id)) = SavedRows(r)
            /\ ~DeleteSucceeded(r) => hist[r].saves = <<>>

\* C11 (step): the rows of the source change only by the forced delete and
\* by the saves of the run, and a new run or a new attempt of the retrier
\* leaves the table as it is
C11_Step ==
    \A r \in Active :
        LET id == SourceRecordId(inp[r].source_id)
        IN RowsOf(store', id) # RowsOf(store, id) =>
             \/ hist'[r].deletes = hist[r].deletes + 1 /\ RowsOf(store', id) = <<>>
             \/ /\ Len(hist'[r].saves) = Len(hist[r].saves) + 1
                /\ Len(RowsOf(store', id)) = Len(RowsOf(store, id)) + 1

\* C11: re-extraction with force=true is idempotent on the table: after any
\* number of forced runs of a source, restarts by the retrier included, the
\* table holds for the source the records of one run and no duplicates
C11_ForcedRerunIdempotent == [](C11_State) /\ [][C11_Step]_vars

\* a forced run (of the command) deleted the two rows the run before it had
\* saved, saved two rows itself, and is over
C11_Witness ==
    \E r \in RunIds :
        /\ Terminal(r)
        /\ inp[r].force
        /\ loc[r].deleted_count = 2
        /\ Len(SavedRows(r)) = 2
        /\ Len(RowsOf(store, SourceRecordId(inp[r].source_id))) = 2

\* the runs of the acm_extract job
Jobs == {r \in Active : inp[r].entry = "command"}

\* C12 (state): a job is in one of its MaxAttempts attempts; when it is over
\* its caller has a returned output, with an error_message if it failed, or
\* the RuntimeError of the last attempt
C12_State ==
    \A r \in Jobs :
        /\ attempt[r] \in 1..MaxAttempts
        /\ Terminal(r) =>
              \/ out[r] = Raised("RuntimeError") /\ attempt[r] = MaxAttempts
              \/ /\ out[r].kind = "returned"
                 /\ ~out[r].value.success => Truthy(out[r].value.error_message)

\* C12 (step): only a RuntimeError that left the command starts a new
\* attempt, and an output, once returned, is final
C12_Step ==
    \A r \in Jobs :
        /\ attempt'[r] # attempt[r] =>
              /\ pc[r] = "cmd_raised"
              /\ attempt'[r] = attempt[r] + 1
              /\ pc'[r] = "cmd_start"
        /\ out'[r].kind = "returned" =>
              /\ pc'[r] = "done"
              /\ attempt'[r] = attempt[r]
        /\ pc'[r] = "cmd_raised" => pc[r] = "cmd_start" /\ out'[r] = out[r]

\* C12: the job is attempted at most 3 times; only a RuntimeError leaves the
\* command as an exception and starts a new attempt; any other error is
\* returned as a final output with success = false and an error_message
C12_OuterRetry == [](C12_State) /\ [][C12_Step]_vars

\* the third attempt ended with an error that is no RuntimeError: it was
\* returned, not retried
C12_Witness ==
    \E r \in RunIds :
        /\ inp[r].entry = "command"
        /\ attempt[r] = MaxAttempts
        /\ Terminal(r)
        /\ out[r].kind = "returned"
        /\ ~out[r].value.success
        /\ out[r].value.error_message = "Database error"

\* what belongs to run r alone: where it stands and its working state
Local(r) ==
    <<pc[r], attempt[r], state[r], loc[r], fnout[r], out[r].kind, hist[r]>>

\* the rows run r would leave for its source had it run alone: the row that
\* was there, unless its forced delete went through, then the rows it saved
RowsAlone(r) ==
    (IF DeleteSucceeded(r) THEN <<>>
     ELSE <<Scalars(OldRow(SourceRecordId(inp[r].source_id)))>>)
    \o SavedRows(r)

\* C13 (state): whatever the other run does, the table holds for the source
\* of a run what the run alone would have left, and the count of deleted
\* records it reports is that of its own source
C13_State ==
    \A r \in Active :
        /\ RowsOf(store, SourceRecordId(inp[r].source_id)) = RowsAlone(r)
        /\ loc[r].deleted_count =
              IF inp[r].entry = "command" /\ DeleteSucceeded(r) THEN 1 ELSE 0

\* C13 (step): a step of one run leaves alone the chunk index, retry_count,
\* context, records and outcome of the other and the rows of its source
C13_Step ==
    \A r, q \in RunIds :
        r # q /\ Local(r)' # Local(r) =>
            /\ Local(q)' = Local(q)
            /\ RowsOf(store', SourceRecordId(inp[q].source_id))
                  = RowsOf(store, SourceRecordId(inp[q].source_id))

\* C13: two runs for different sources, interleaved in any order, are
\* independent: neither changes the other's working state, a forced delete
\* for one source never removes the other's records, and the records
\* persisted for each source are those of the run alone
C13_RunsIndependent == [](C13_State) /\ [][C13_Step]_vars

\* both runs are over and have saved; the first was forced, and its row
\* stands in the table behind a row the second saved
C13_Witness ==
    /\ \A r \in RunIds : Terminal(r) /\ Len(SavedRows(r)) >= 1
    /\ inp["r1"].force /\ DeleteSucceeded("r1")
    /\ ~inp["r2"].force
    /\ Len(store) >= 3
    /\ store[2].source_id = "source:2"
    /\ store[3].source_id = "source:1"

\* the positions of records where a dedup key occurs for the first time
FirstOccurrences(records, school_code) ==
    SelectSeq([i \in 1..Len(records) |-> i],
              LAMBDA i : \A j \in 1..(i - 1) :
                  GenerateDedupKey(records[j], school_code)
                      # GenerateDedupKey(records[i], school_code))

\* the positions of the records that share the key of the record at i
KeyGroup(records, school_code, i) ==
    {j \in 1..Len(records) :
        GenerateDedupKey(records[j], school_code)
            = GenerateDedupKey(records[i], school_code)}

RankAt(records, j) ==
    CASE records[j].extraction_confidence = "high" -> 3
      [] records[j].extraction_confidence = "medium" -> 2
      [] records[j].extraction_confidence = "low" -> 1

\* the first position of a group whose record has the group's highest rank
FirstBest(records, group) ==
    CHOOSE j \in group :
        /\ \A k \in group : RankAt(records, k) <= RankAt(records, j)
        /\ \A k \in group : RankAt(records, k) = RankAt(records, j) => j <= k

WithoutIssues(record) == [record EXCEPT !.data_issues = <<>>]

\* C14: deduplicate_records returns one record per distinct dedup key of its
\* input, in the order in which the keys first occur; the record of a key
\* has the scalar fields of the first input record among those of the
\* highest confidence rank in the key's group, and its data_issues are, as
\* a set, the union of the issues of the group.
C14_OnePerKey ==
    (call.fn = "deduplicate_records" /\ call.done) =>
        LET records == call.records
            firsts == FirstOccurrences(records, call.school_code)
        IN /\ Len(call.result) = Len(firsts)
           /\ \A n \in 1..Len(firsts) :
                 LET group == KeyGroup(records, call.school_code, firsts[n])
                     kept == call.result[n]
                 IN /\ GenerateDedupKey(kept, call.school_code)
                         = GenerateDedupKey(records[firsts[n]], call.school_code)
                    /\ WithoutIssues(kept)
                         = WithoutIssues(records[FirstBest(records, group)])
                    /\ Range(kept.data_issues)
                         = UNION {Range(records[j].data_issues) : j \in group}

\* three records of one key, a low one first and then two high ones that
\* differ, were merged into the first high one with the issues of all three
C14_Witness ==
    /\ call.fn = "deduplicate_records" /\ call.done
    /\ Len(call.records) = 3 /\ Len(call.result) = 1
    /\ call.records[1].extraction_confidence = "low"
    /\ call.records[2].extraction_confidence = "high"
    /\ call.records[3].extraction_confidence = "high"
    /\ call.records[2].product # call.records[3].product
    /\ call.result[1].product = call.records[2].product
    /\ Cardinality(Range(call.result[1].data_issues)) = 2

SameRecord(a, b) ==
    /\ WithoutIssues(a) = WithoutIssues(b)
    /\ Range(a.data_issues) = Range(b.data_issues)

LowAndHigh(a, b) ==
    /\ a.extraction_confidence = "low" /\ b.extraction_confidence = "high"
    /\ GenerateDedupKey(a, None) = GenerateDedupKey(b, None)

\* C15: _merge_records of a record with itself yields that record, its
\* issues compared as a set; merging the result of a merge again with
\* either of the two records it was made from yields the result again; and
\* of a low and a high record of one key, in either argument order, the
\* result has the scalar fields of the high one and, as a set, the issues of
\* both.
C15_MergeIdempotentMonotonic ==
    (call.fn = "_merge_records" /\ call.calls >= 1) =>
        /\ call.existing = call.new => SameRecord(call.result, call.existing)
        /\ call.calls = 2 => SameRecord(call.again, call.result)
        /\ \A low \in {call.existing, call.new}, high \in {call.existing, call.new} :
              LowAndHigh(low, high) =>
                  /\ WithoutIssues(call.result) = WithoutIssues(high)
                  /\ Range(call.result.data_issues)
                       = Range(low.data_issues) \cup Range(high.data_issues)

\* a low record was merged with a later high one of its key, both with
\* issues, and the result was merged again with the low one
C15_Witness ==
    /\ call.fn = "_merge_records" /\ call.calls = 2
    /\ LowAndHigh(call.existing, call.new)
    /\ call.existing.data_issues # <<>> /\ call.new.data_issues # <<>>
    /\ call.again_with = call.existing
    /\ call.again.product = call.new.product

\* the four components of a key, a missing school code or building id
\* counted as "unknown" and a missing room id as "none"
KeyComponents(x) ==
    <<IF Truthy(x.school_code) THEN x.school_code ELSE "unknown",
      IF Truthy(x.record.building_id) THEN x.record.building_id ELSE "unknown",
      IF Truthy(x.record.room_id) THEN x.record.room_id ELSE "none",
      SubSeq(x.record.material_description, 1,
             Min(50, Len(x.record.material_description)))>>

\* C16: two records get equal dedup keys if they agree in school code,
\* building id, room id and the first 50 characters of the description, and
\* different keys if they differ in any of the four.
C16_KeysDiscriminate ==
    (call.fn = "_generate_dedup_key" /\ call.done) =>
        (KeyComponents(call.a) = KeyComponents(call.b)
            <=> call.key_a = call.key_b)

\* C16, the half that holds: agreeing in the four components gives equal keys
C16_EqualComponentsEqualKeys ==
    (call.fn = "_generate_dedup_key" /\ call.done) =>
        (KeyComponents(call.a) = KeyComponents(call.b)
            => call.key_a = call.key_b)

\* the positions of the records validate_records keeps: those with a
\* building id of their own or of the context, a product and a description
KeptPositions(records, context) ==
    SelectSeq([i \in 1..Len(records) |-> i],
              LAMBDA i :
                  /\ Truthy(records[i].building_id) \/ Truthy(context.building_id)
                  /\ Truthy(records[i].product)
                  /\ Truthy(records[i].material_description))

\* text contains word, whatever the case of its letters
Mentions(text, word) == Contains(Lower(text), word)

EmptyResultNote == "Result field was empty, set to Unknown"

\* C17: after validate_records, a kept record whose result text contained
\* "no asbestos", "nad" or "not detected" (in any case) has result
\* "Not Detected"; otherwise one whose text contained "detected" or
\* "positive" has "Detected"; otherwise one whose text contained "presumed"
\* has "Presumed"; and one whose result was empty has "Unknown" and the
\* note on the empty result among its issues.
C17_ResultPrecedence ==
    (call.fn = "validate_records" /\ call.done) =>
        LET kept == KeptPositions(call.records, call.context)
        IN /\ Len(call.records_out) = Len(kept)
           /\ \A n \in 1..Len(kept) :
                 LET text == call.records[kept[n]].result
                     after == call.records_out[n]
                 IN IF text = "" \/ text = None
                    THEN /\ after.result = "Unknown"
                         /\ EmptyResultNote \in Range(after.data_issues)
                    ELSE IF Mentions(text, "no asbestos") \/ Mentions(text, "nad")
                            \/ Mentions(text, "not detected")
                    THEN after.result = "Not Detected"
                    ELSE IF Mentions(text, "detected") \/ Mentions(text, "positive")
                    THEN after.result = "Detected"
                    ELSE Mentions(text, "presumed") => after.result = "Presumed"

\* two records were validated: one whose text names a presumption and its
\* negation, which became Not Detected, and one whose result was empty
C17_Witness ==
    /\ call.fn = "validate_records" /\ call.done
    /\ Len(call.records) = 2 /\ Len(call.records_out) = 2
    /\ call.records[1].result = "Presumed ACM - Not Detected in sample"
    /\ call.records_out[1].result = "Not Detected"
    /\ call.records[2].result = ""
    /\ call.records_out[2].result = "Unknown"

ResultVocabulary == {"Detected", "Not Detected", "Presumed", "Unknown"}

\* C18: after validate_records the result of every kept record is one of
\* Detected, Not Detected, Presumed and Unknown.
C18_ResultInVocabulary ==
    (call.fn = "validate_records" /\ call.done) =>
        \A n \in 1..Len(call.records_out) :
            call.records_out[n].result \in ResultVocabulary

\* C19: when twice the estimated token count of the text is at most the
\* context window, _chunk_content returns one chunk: the whole text, with
\* chunk_index 0 and page_number 1.
C19_SmallTextOneChunk ==
    (/\ call.fn = "_chunk_content"
     /\ call.at = "done"
     /\ 2 * TokenCount(call.content) <= call.context_window) =>
        call.chunks = <<[content |-> call.content, page_number |-> 1,
                         chunk_index |-> 0]>>

\* a text of two pages that begins with the marker of page 12 was under the
\* threshold of a small window, by a margin or exactly, and is one chunk
C19_Witness ==
    /\ call.fn = "_chunk_content" /\ call.at = "done"
    /\ call.context_window < 100
    /\ Len(call.pages) >= 1 /\ call.pages[1].number = 12
    /\ 2 * TokenCount(call.content) \in {call.context_window - 1,
                                          call.context_window}
    /\ Len(call.chunks) = 1

\* the text of the i-th page of a document, from the newline before its
\* marker to the end of its body
PageText(c, i) == "\n" \o c.pages[i].marker \o c.pages[i].body

\* C20: when the text exceeds the threshold and has N page markers,
\* _chunk_content returns at least N chunks in document order: the chunks
\* can be assigned to the pages, in order and every page with a chunk, so
\* that each chunk is text of its page and its page_number is the number
\* written in the page's marker.
C20_PageChunksTagged ==
    (/\ call.fn = "_chunk_content"
     /\ call.at = "done"
     /\ 2 * TokenCount(call.content) > call.context_window
     /\ call.pages # <<>>) =>
        /\ Len(call.chunks) >= Len(call.pages)
        /\ \E page_of \in [1..Len(call.chunks) -> 1..Len(call.pages)] :
              /\ \A i \in 1..Len(call.pages) :
                    \E k \in 1..Len(call.chunks) : page_of[k] = i
              /\ \A k \in 1..Len(call.chunks) :
                    /\ k > 1 => page_of[k - 1] <= page_of[k]
                    /\ call.chunks[k].page_number
                         = call.pages[page_of[k]].number
                    /\ Contains(PageText(call, page_of[k]),
                                call.chunks[k].content)
                    /\ call.chunks[k].chunk_index = k - 1

\* a text of two pages, numbered 7 and 12, was over the threshold; the
\* first page was itself too large and was cut in more than one chunk
C20_Witness ==
    /\ call.fn = "_chunk_content" /\ call.at = "done"
    /\ Len(call.pages) = 2
    /\ call.pages[1].number = 7 /\ call.pages[2].number = 12
    /\ Len(call.chunks) > 2
    /\ call.chunks[1].page_number = 7 /\ call.chunks[2].page_number = 7
    /\ call.chunks[Len(call.chunks)].page_number = 12

\* C21: _chunk_content ends with at least one chunk, the chunks numbered
\* 0, 1, ... in list order, and every turn of the loop over the character
\* windows that is followed by another begins further on in the text than
\* the turn before.
C21_ChunkingProgress ==
    /\ [][(/\ call.fn = "_chunk_content"
            /\ call.at = "window" /\ call'.at = "window"
            /\ call'.chunks # call.chunks)
           => call'.start > call.start]_vars
    /\ []((call.fn = "_chunk_content" /\ call.at = "done"
             /\ call.content # "") =>
            /\ call.chunks # <<>>
            /\ \A k \in 1..Len(call.chunks) :
                  call.chunks[k].chunk_index = k - 1)

\* the line is one the parser takes for the header of a table: it has the
\* delimiter and one of the header tokens
HasTableHeader(line) ==
    /\ Contains(line, "|")
    /\ \E token \in {"product", "material description", "result"} :
          Contains(Lower(line), token)

\* C22: extract_acm_records ends without an exception and with no record
\* when it is handed no text, an empty text, or a text none of whose lines
\* has a '|' and one of the tokens product, material description, result.
C22_NoTableNoRecords ==
    (/\ call.fn = "extract_acm_records"
     /\ call.at = "done"
     /\ \A k \in 1..Len(MarkdownLines(call.items)) :
           ~HasTableHeader(MarkdownLines(call.items)[k].line))
    => (call.result = <<>> /\ ~call.raised)

\* a text with headers and a table that is no register has been read to
\* the end, and so has no text at all
C22_Witness ==
    /\ call.fn = "extract_acm_records"
    /\ call.at = "done"
    /\ call.result = <<>>
    /\ \/ call.markdown_content = None
       \/ /\ call.i > Len(call.lines)
          /\ \E k \in 1..Len(call.items) : call.items[k].kind = "other"
          /\ \E k \in 1..Len(call.items) : call.items[k].kind = "building"

\* the cells of a table line, trimmed, without the empty cell the delimiter
\* at either edge leaves
RowCells(line) ==
    LET cells == Cells(line)
        from == IF cells[1] = "" THEN 2 ELSE 1
        to == IF cells[Len(cells)] = "" THEN Len(cells) - 1 ELSE Len(cells)
    IN SubSeq(cells, from, to)

\* the line is a separator of a table: delimiters, dashes, colons, spaces
IsSeparator(line) ==
    /\ Contains(line, "-")
    /\ \A k \in 1..Len(line) : SubSeq(line, k, k) \in {"|", "-", ":", " "}

\* the cell of a data row in the first column whose header holds word
CellUnder(header, row, word) ==
    LET cols == {k \in 1..Len(header) : Contains(Lower(header[k]), word)}
        col == CHOOSE k \in cols : \A j \in cols : k <= j
    IN IF cols # {} /\ col <= Len(row) THEN row[col] ELSE ""

\* The data rows a reader of the document finds, from line k on: a table
\* begins at a line with a table header, goes on over the lines with a
\* delimiter and ends at any other line, a blank one too; its data rows
\* are the lines after the header that are no separator.  header holds the
\* header cells of the table line k is in, or nothing outside a table.
RECURSIVE DataRows(_, _, _)
DataRows(lines, k, header) ==
    IF k > Len(lines) THEN <<>>
    ELSE IF header = <<>>
    THEN DataRows(lines, k + 1,
                  IF HasTableHeader(lines[k]) THEN RowCells(lines[k])
                  ELSE <<>>)
    ELSE IF ~Contains(lines[k], "|") THEN DataRows(lines, k + 1, <<>>)
    ELSE IF IsSeparator(lines[k]) THEN DataRows(lines, k + 1, header)
    ELSE << <<CellUnder(header, RowCells(lines[k]), "product"),
              CellUnder(header, RowCells(lines[k]), "material desc")>> >>
         \o DataRows(lines, k + 1, header)

\* C23: the records extract_acm_records returns are, in order, the data
\* rows of the tables of the document whose product and material
\* description cells are not empty, and nothing else: no header line and no
\* separator, also where only a blank line stands between two tables.
C23_RowsAreDataRows ==
    (call.fn = "extract_acm_records" /\ call.at = "done"
     /\ call.markdown_content # None)
    => [k \in 1..Len(call.result) |->
           <<call.result[k].product, call.result[k].material_description>>]
       = SelectSeq(DataRows(Split(call.markdown_content, "\n"), 1, <<>>),
                   LAMBDA row : row[1] # "" /\ row[2] # "")

\* the piece of the document the line of this turn of the loop belongs to
ItemOfTurn == MarkdownLines(call.items)[call.i].item

\* C24: a turn of the parser's loop on a building header, written with or
\* without the word Building, leaves room_id, room_name and room_area
\* empty and area_type Interior; a turn on a room header, written with or
\* without the word Room, changes neither building_id, building_name,
\* building_year, building_construction nor area_type.
C24_HeaderTransitions ==
    [][(/\ call.fn = "extract_acm_records"
        /\ call.at = "loop"
        /\ call.i <= Len(call.lines)
        /\ call'.at = "loop")
       => /\ ItemOfTurn.kind = "building"
             => /\ call'.context.room_id = None
                /\ call'.context.room_name = None
                /\ call'.context.room_area = None
                /\ call'.context.area_type = "Interior"
          /\ ItemOfTurn.kind = "room"
             => /\ call'.context.building_id = call.context.building_id
                /\ call'.context.building_name = call.context.building_name
                /\ call'.context.building_year = call.context.building_year
                /\ call'.context.building_construction
                      = call.context.building_construction
                /\ call'.context.area_type = call.context.area_type]_vars

\* the last piece of the given kind before the j-th and after the given
\* one, or 0
LatestBefore(items, j, kind, after) ==
    LET found == {k \in (after + 1)..(j - 1) : items[k].kind = kind}
    IN IF found = {} THEN 0
       ELSE CHOOSE k \in found : \A m \in found : m <= k

\* the record carries what the headers and the marker before the j-th
\* piece, a table, state: the latest building; the latest room and area
\* type, of that building or (as one may also read the claim) of any
\* before; the latest page; and the defaults where there is none
CarriesContext(record, items, j) ==
    LET b == LatestBefore(items, j, "building", 0)
        page == LatestBefore(items, j, "page", 0)
        Stated(k, field, default) ==
            IF k = 0 THEN default ELSE items[k][field]
    IN /\ record.building_id = Stated(b, "id", "Unknown")
       /\ record.room_id
             \in {Stated(LatestBefore(items, j, "room", b), "id", None),
                  Stated(LatestBefore(items, j, "room", 0), "id", None)}
       /\ record.area_type
             \in {Stated(LatestBefore(items, j, "area", b), "name", "Interior"),
                  Stated(LatestBefore(items, j, "area", 0), "name", "Interior")}
       /\ record.page_number = IF page = 0 THEN 1 ELSE items[page].page

\* the records from the k-th on can be told off to the tables from the j-th
\* piece on, in order, each carrying the context of its table
RECURSIVE InTableOrder(_, _, _, _)
InTableOrder(result, items, k, j) ==
    \/ k > Len(result)
    \/ \E t \in j..Len(items) :
          /\ items[t].kind \in {"table", "other"}
          /\ CarriesContext(result[k], items, t)
          /\ InTableOrder(result, items, k + 1, t)

\* C25: every record extract_acm_records returns carries the building_id,
\* room_id, area_type and page_number of the latest building header, room
\* header, area type header and page marker before its table, and the
\* records come in the order of the tables.
C25_RecordsCarryContext ==
    (call.fn = "extract_acm_records" /\ call.at = "done")
    => InTableOrder(call.result, call.items, 1, 1)

\* C26: when the model cannot be provisioned for a chunk, the chunk is tried
\* again while retry_count < MAX_RETRIES: extract_records ends the run with
\* the provisioning error only once the retries are used up.
C26_ProvisionRetried ==
    [][\A r \in RunIds :
          (/\ pc[r] = "extract"
           /\ state[r].error = None
           /\ state'[r].error = "Model provisioning failed")
          => state[r].retry_count >= MAX_RETRIES]_vars

\* C27: in a job, a save that the store refuses (write contention, a
\* transient error) leaves the run for the retry wrapper of the command; it
\* is not kept as an error of that record while the run goes on.
C27_ConflictReachesRetrier ==
    [][\A r \in Jobs :
          (/\ pc[r] = "save"
           /\ Len(loc'[r].errors) > Len(loc[r].errors)
           /\ loc'[r].errors[Len(loc'[r].errors)] = "Database write failed")
          => pc'[r] = "cmd_raised"]_vars

\* the last record the model returned in the call
LastReturned == call.response[Len(call.response)]

\* C28: the update extract_records returns when the model answered has the
\* records returned appended to those there were, retry_count 0 and the
\* chunk index one higher; the building_id and building_name of its context
\* are those of the last record returned if that has a building_id, and
\* else as before, and likewise the room_id and room_name.
C28_SuccessUpdate ==
    (call.fn = "extract_records" /\ call.done)
    => LET before == call.state.context
           after == call.update.context
           building == call.response # <<>>
                       /\ LastReturned.building_id \notin {None, ""}
           room == call.response # <<>>
                   /\ LastReturned.room_id \notin {None, ""}
       IN /\ call.update.records = call.state.records \o call.response
          /\ call.update.retry_count = 0
          /\ call.update.current_chunk_index
                = call.state.current_chunk_index + 1
          /\ after.building_id = IF building THEN LastReturned.building_id
                                 ELSE before.building_id
          /\ after.building_name = IF building THEN LastReturned.building_name
                                   ELSE before.building_name
          /\ after.room_id = IF room THEN LastReturned.room_id
                             ELSE before.room_id
          /\ after.room_name = IF room THEN LastReturned.room_name
                               ELSE before.room_name

\* a retried call on the second chunk has answered two records, the last
\* with a room and no building, after a chunk that left a building
C28_Witness ==
    /\ call.fn = "extract_records"
    /\ call.done
    /\ call.state.retry_count > 0
    /\ call.state.current_chunk_index = 1
    /\ call.state.records # <<>>
    /\ Len(call.response) = 2
    /\ LastReturned.building_id = ""
    /\ LastReturned.room_id = "R7"
    /\ call.update.context.building_id = "B1"
    /\ call.update.context.room_id = "R7"

\* C29: when the call leaves the context with another building_id than it
\* had, the room of the context is the room of the last record returned,
\* or empty if that names none, room_area is empty and area_type Interior:
\* the building is never paired with the room of the building before.
C29_RoomResetOnBuildingChange ==
    (/\ call.fn = "extract_records"
     /\ call.done
     /\ call.update.context.building_id # call.state.context.building_id)
    => /\ call.update.context.room_id
             = IF Truthy(LastReturned.room_id) THEN LastReturned.room_id
               ELSE None
       /\ call.update.context.room_name
             = IF Truthy(LastReturned.room_id) THEN LastReturned.room_name
               ELSE None
       /\ call.update.context.room_area = None
       /\ call.update.context.area_type = "Interior"

\* the records handed to validate_records that it has to keep: those with a
\* product and a material description, and a building_id of their own or
\* one to take from the context
Survivors ==
    {i \in 1..Len(call.records) :
        /\ call.records[i].product \notin {None, ""}
        /\ call.records[i].material_description \notin {None, ""}
        /\ \/ call.records[i].building_id \notin {None, ""}
           \/ call.context.building_id \notin {None, ""}}

\* C30: validate_records keeps a record without a building_id, with a
\* product and a material description, when the context has a building_id:
\* the record it returns has the building_id of the context and the issue
\* 'Building ID inferred from context'.  When the context has none the
\* record is rejected: it is not returned and is counted in
\* records_rejected.
C30_BuildingInferred ==
    (call.fn = "validate_records" /\ call.done)
    => /\ Len(call.records_out) = Cardinality(Survivors)
       /\ call.records_rejected
             = Len(call.records) - Cardinality(Survivors)
       /\ \A i \in Survivors :
             call.records[i].building_id \in {None, ""}
             => LET kept == call.records_out[
                               Cardinality({j \in Survivors : j <= i})]
                IN /\ kept.building_id = call.context.building_id
                   /\ kept.product = call.records[i].product
                   /\ \E k \in 1..Len(kept.data_issues) :
                         kept.data_issues[k]
                            = "Building ID inferred from context"

\* a record without a building_id has been validated after one with,
\* under a context with a building_id, and was kept with that
C30_Witness ==
    /\ call.fn = "validate_records"
    /\ call.done
    /\ Len(call.records) = 2
    /\ call.records[1].building_id = "B1"
    /\ call.records[2].building_id = None
    /\ call.context.building_id = "B9"
    /\ Len(call.records_out) = 2
    /\ call.records_out[2].building_id = "B9"

InvalidConfidenceNote == "Invalid confidence value normalized to medium"

\* how many times note stands among the issues of record
Noted(record, note) ==
    Cardinality({k \in 1..Len(record.data_issues) : record.data_issues[k] = note})

\* C31 (state): from the end of VALIDATE on, the extraction_confidence of
\* every record of the run is one of high, medium, low
C31_State ==
    \A r \in Active :
        Visited(r, "validate") =>
            \A i \in 1..Len(state[r].records) :
                state[r].records[i].extraction_confidence \in ConfidenceLevels

\* C31 (step): VALIDATE replaces a confidence outside the three levels by
\* medium and adds the note on it once; a confidence that is one of the
\* three levels is left as it is and no such note is added
C31_Step ==
    \A r \in RunIds :
        pc[r] = "validate" /\ pc'[r] # "validate" =>
            LET before == state[r].records
                kept == KeptPositions(before, state[r].context)
            IN /\ Len(state'[r].records) = Len(kept)
               /\ \A n \in 1..Len(kept) :
                     LET old == before[kept[n]]
                         new == state'[r].records[n]
                     IN IF old.extraction_confidence \in ConfidenceLevels
                        THEN /\ new.extraction_confidence = old.extraction_confidence
                             /\ Noted(new, InvalidConfidenceNote)
                                    = Noted(old, InvalidConfidenceNote)
                        ELSE /\ new.extraction_confidence = "medium"
                             /\ Noted(new, InvalidConfidenceNote)
                                    = Noted(old, InvalidConfidenceNote) + 1

\* C31: after VALIDATE every surviving record's extraction_confidence is one
\* of high, medium, low: any other value is replaced by medium and an issue
\* is added, and a value already in the set is left unchanged with no issue
\* added.
C31_ConfidenceNormalized == [](C31_State) /\ [][C31_Step]_vars

\* VALIDATE kept a record whose confidence it had to replace, and one whose
\* confidence it left at low
C31_Witness ==
    \E r \in RunIds :
        /\ pc[r] = "deduplicate"
        /\ \E i, j \in 1..Len(state[r].records) :
              /\ Noted(state[r].records[i], InvalidConfidenceNote) = 1
              /\ state[r].records[i].extraction_confidence = "medium"
              /\ Noted(state[r].records[j], InvalidConfidenceNote) = 0
              /\ state[r].records[j].extraction_confidence = "low"

\* the positions of the records whose confidence is level
WithConfidence(records, level) ==
    {i \in 1..Len(records) : records[i].extraction_confidence = level}

\* C32: in the final result of a run, the one SAVE computes,
\* confidence_distribution[level] is the number of the result's records
\* whose confidence is that level, for each of high, medium and low, and the
\* three counts add up to the result's total_records; the counts and the
\* total that the entry point hands on add up in the same way.
C32_DistributionCounts ==
    \A r \in Active :
        /\ SaveOver(r) =>
              LET res == state[r].extraction_result
                  dist == res.confidence_distribution
              IN /\ \A l \in ConfidenceLevels :
                       dist[l] = Cardinality(WithConfidence(res.records, l))
                 /\ dist["high"] + dist["medium"] + dist["low"]
                       = res.total_records
        /\ pc[r] \in {"cmd_return", "done"} =>
              fnout[r].confidence_distribution["high"]
                 + fnout[r].confidence_distribution["medium"]
                 + fnout[r].confidence_distribution["low"]
              = fnout[r].total_records

\* a run ended with a result of two records of different confidence, one of
\* which could not be saved
C32_Witness ==
    \E r \in RunIds :
        /\ pc[r] = "done"
        /\ Len(state[r].extraction_result.records) = 2
        /\ state[r].extraction_result.confidence_distribution["medium"] = 1
        /\ state[r].extraction_result.confidence_distribution["low"] = 1
        /\ SavesWith(r, FALSE) # {}

\* where the k-th chunk of the character windows begins in the text
\* (counted from 0) if the first begins at 0 and every other one 500
\* characters before the end of the chunk before it
RECURSIVE WindowStart(_, _)
WindowStart(chunks, k) ==
    IF k = 1 THEN 0
    ELSE WindowStart(chunks, k - 1) + Len(chunks[k - 1].content)
            - CHUNK_OVERLAP_CHARS

\* a newline among the characters of text numbered lo..hi-1 (from 0)
NewlineIn(text, lo, hi) ==
    \E i \in lo..(hi - 1) :
        i >= 0 /\ i < Len(text) /\ SubSeq(text, i + 1, i + 1) = "\n"

\* C33: with no page markers and a text over the threshold, every chunk of
\* _chunk_content is at most threshold x 4 characters long, every chunk
\* after the first is the text from exactly 500 characters before the end
\* of the chunk before it, a chunk that does not reach the end of the text
\* ends just after a newline when one lies in the last 500 characters of
\* its window, and the chunk with chunk_index k has page_number k + 1.
C33_WindowChunks ==
    (/\ call.fn = "_chunk_content"
     /\ call.at \in {"window", "done"}
     /\ call.pages = <<>>
     /\ 2 * TokenCount(call.content) > call.context_window) =>
        LET chunk_size == (call.context_window \div 2) * CHARS_PER_TOKEN_ESTIMATE
        IN \A k \in 1..Len(call.chunks) :
              LET text == call.chunks[k].content
                  start == WindowStart(call.chunks, k)
                  end == start + Len(text)
              IN /\ Len(text) <= chunk_size
                 /\ start >= 0
                 /\ text = Slice(call.content, start, end)
                 /\ end < Len(call.content) =>
                       IF NewlineIn(call.content,
                                    start + chunk_size - CHUNK_OVERLAP_CHARS,
                                    start + chunk_size)
                       THEN SubSeq(text, Len(text), Len(text)) = "\n"
                       ELSE Len(text) = chunk_size
                 /\ call.chunks[k].chunk_index = k - 1
                 /\ call.chunks[k].page_number = k

\* text ends with tail
EndsWith(text, tail) ==
    Len(tail) <= Len(text)
    /\ SubSeq(text, Len(text) - Len(tail) + 1, Len(text)) = tail

\* C34: when the text is over the threshold and has page markers, a page
\* over the threshold is split at its section headings, so that every chunk
\* returned is within the token budget (its token count does not exceed the
\* threshold), and the last chunk holds the remainder of the text.
C34_SubChunksWithinBudget ==
    (/\ call.fn = "_chunk_content"
     /\ call.at = "done"
     /\ 2 * TokenCount(call.content) > call.context_window
     /\ call.pages # <<>>) =>
        /\ \A k \in 1..Len(call.chunks) :
              TokenCount(call.chunks[k].content) <= call.context_window \div 2
        /\ EndsWith(call.content, call.chunks[Len(call.chunks)].content)

\* the number of records the run has persisted
Persisted(r) == Cardinality(SavesWith(r, TRUE))

\* C35: the total_records of the output of extract_acm_from_source, and the
\* records_created of the output of the command, is the number of records
\* the run persisted, whether all saves succeeded, some failed or all
\* failed.
C35_TotalIsPersisted ==
    \A r \in Active :
        Terminal(r) /\ out[r].kind = "returned" =>
            IF inp[r].entry = "function"
            THEN out[r].value.total_records = Persisted(r)
            ELSE out[r].value.records_created = Persisted(r)

\* the character of text at position i stands in a chunk: the content of one
\* of the chunks is a piece of text that includes position i
InSomeChunk(text, chunks, i) ==
    \E k \in 1..Len(chunks) :
        \E a \in 1..i :
            /\ i <= a + Len(chunks[k].content) - 1
            /\ a + Len(chunks[k].content) - 1 <= Len(text)
            /\ SubSeq(text, a, a + Len(chunks[k].content) - 1)
                  = chunks[k].content

\* C36: _chunk_content loses no text: every character of the text that is
\* not whitespace stands in at least one of the chunks returned, whether
\* the text was cut at page markers (the text before the first marker
\* included), at section headings or in character windows.
C36_NoTextLost ==
    (call.fn = "_chunk_content" /\ call.at = "done") =>
        \A i \in 1..Len(call.content) :
            ~IsSpace(SubSeq(call.content, i, i))
                => InSomeChunk(call.content, call.chunks, i)

DetectedOrNot == {"Detected", "Not Detected"}

\* C37: the parser and the validator normalise a result text alike: a text
\* that both turn into Detected or Not Detected is turned into the same of
\* the two by both, so a result cell reading Not Detected is never recorded
\* as Detected by the one and as Not Detected by the other.
C37_SameNormalization ==
    (/\ call.fn = "result_text"
     /\ call.parsed # <<>> /\ call.validated # <<>>
     /\ call.parsed[1] \in DetectedOrNot
     /\ call.validated[1] \in DetectedOrNot) =>
        call.parsed[1] = call.validated[1]

\* C38: every record that has passed validate_records is accepted by the
\* field validators of ACMRecord when SAVE constructs it: no validated
\* record has an empty or whitespace-only building_id, product,
\* material_description or result or an invalid extraction_confidence, and
\* a save fails in the persistence layer only.
C38_ValidatedRecordsAccepted ==
    \A r \in Active :
        /\ Visited(r, "validate") =>
              \A i \in 1..Len(state[r].records) :
                  ACMRecordError(inp[r].source_id, "Unknown School",
                                 state[r].records[i]) = None
        /\ \A k \in 1..Len(loc[r].errors) :
              loc[r].errors[k] = "Database write failed"

InferredNote == "Building ID inferred from context"

\* C39 (EXTRACT): a call that answers appends the records of the answer as
\* they are, and leaves in the context the building_id of the last record
\* of the answer if it has one and the building_id it held otherwise; a call
\* that fails leaves the building_id of the context alone
C39_ExtractStep ==
    \A r \in RunIds :
        pc[r] = "extract" =>
            IF AnsweredCall(r)
            THEN LET new_records == state'[r].extraction_result.records
                     last_record == new_records[Len(new_records)]
                 IN /\ state'[r].records = state[r].records \o new_records
                    /\ state'[r].context.building_id =
                          IF new_records # <<>> /\ Truthy(last_record.building_id)
                          THEN last_record.building_id
                          ELSE state[r].context.building_id
            ELSE /\ state'[r].context.building_id = state[r].context.building_id
                 /\ state'[r].records = state[r].records

\* C39 (VALIDATE): a record without a building_id is kept exactly when the
\* context holds one, and then carries the building_id the context holds
\* at that moment, the end of EXTRACT, with the note on the inference
C39_ValidateStep ==
    \A r \in RunIds :
        pc[r] = "validate" /\ pc'[r] # "validate" =>
            LET before == state[r].records
                kept == KeptPositions(before, state[r].context)
            IN /\ Len(state'[r].records) = Len(kept)
               /\ state'[r].context = state[r].context
               /\ \A n \in 1..Len(kept) :
                     ~Truthy(before[kept[n]].building_id) =>
                        /\ state'[r].records[n].building_id
                              = state[r].context.building_id
                        /\ InferredNote \in Range(state'[r].records[n].data_issues)

\* C39: the building_id that VALIDATE infers for a record without one is the
\* building_id of the context as EXTRACT left it (that of the last record
\* of the latest chunk whose last record had one), whichever chunk the
\* record came from: not the building current when the record's own chunk
\* was processed.
C39_InferredFromFinalContext == [][C39_ExtractStep /\ C39_ValidateStep]_vars

\* a record without a building_id came with the first chunk, when the
\* context held no building; the second chunk brought a record of building
\* B1, and VALIDATE has given B1 to the record of the first chunk
C39_Witness ==
    \E r \in RunIds :
        /\ pc[r] = "deduplicate"
        /\ hist[r].extracted = <<0, 1>>
        /\ Len(state[r].records) = 2
        /\ state[r].records_rejected = 1
        /\ state[r].records[1].product = "Pipe Lagging"
        /\ state[r].records[1].building_id = "B1"
        /\ InferredNote \in Range(state[r].records[1].data_issues)
        /\ state[r].records[2].product = "Floor Tiles"

====
